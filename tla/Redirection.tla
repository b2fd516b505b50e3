----------------------------- MODULE Redirection -----------------------------
(***************************************************************************)
(* What the transactions of Detours promise the plugin, without the        *)
(* trampolines, the pages, the list of operations and the threads: each    *)
(* function begins with its own code or leads to one detour; who owns the  *)
(* transaction asks for changes, at most one of each function; and all of  *)
(* them happen at once, or, if anything failed or it was aborted, none.    *)
(***************************************************************************)
CONSTANTS
    Thread,
    Nobody,
    Func,
    Detour,
    Own         \* a function's own code

VARIABLES
    owner,      \* the thread whose transaction is open
    failed,     \* whether anything of the latest transaction has failed
    to,         \* what each function begins with
    asked       \* what it would begin with if the transaction were committed

redirection_vars == <<owner, failed, to, asked>>
-----------------------------------------------------------------------------
\* Opening a transaction may fail, and it is then good for nothing but an end.
Open(t) ==
    /\ owner = Nobody
    /\ owner' = t
    /\ failed' \in BOOLEAN
    /\ UNCHANGED <<to, asked>>

Fail(t) ==
    /\ owner = t /\ ~failed
    /\ failed' = TRUE
    /\ UNCHANGED <<owner, to, asked>>

\* Function f, which leads to a, shall lead to b.
Ask(t, f, a, b) ==
    /\ owner = t /\ ~failed
    /\ to[f] = a /\ asked[f] = a
    /\ asked' = [asked EXCEPT ![f] = b]
    /\ UNCHANGED <<owner, failed, to>>

\* Only its own code is detoured, and only the detour in place is removed.
Redirect(t, f, d) == Ask(t, f, Own, d)
Restore(t, f, d) == Ask(t, f, d, Own)

\* With or without a failure nothing of what was asked happens.
Abandon(t) ==
    /\ owner = t
    /\ owner' = Nobody
    /\ asked' = to
    /\ UNCHANGED <<failed, to>>

\* All that was asked happens at once.
Apply(t) ==
    /\ owner = t /\ ~failed
    /\ owner' = Nobody
    /\ to' = asked
    /\ UNCHANGED <<failed, asked>>

RedirectionInit ==
    /\ owner = Nobody /\ failed = FALSE
    /\ to = [f \in Func |-> Own] /\ asked = to

RedirectionNext ==
    \E t \in Thread :
        \/ Open(t) \/ Fail(t) \/ Abandon(t) \/ Apply(t)
        \/ \E f \in Func, d \in Detour : Redirect(t, f, d) \/ Restore(t, f, d)

RedirectionSpec == RedirectionInit /\ [][RedirectionNext]_redirection_vars
=============================================================================
