----------------------------- MODULE Documented -----------------------------
(***************************************************************************)
(* What the README and the plugin's messages say of it, where the code     *)
(* does something else.  Each of these is violated by a run of its own.    *)
(***************************************************************************)
EXTENDS History

\* "All blocked ip addresses are removed" (msvc/Settings.h:18), the answer to
\* itsavar clear: after it no blocked address is left.
\* Clear(true) flags the first entry of the vector as often as the vector is
\* long (ddoscontrol.cpp:234-239).
ClearedAll == reply.text = "CMD_CLEAR_OK" => BlockedIPCount = 0

\* "Invalid index or IpAddress" (msvc/Settings.h:20): removing an address
\* succeeds only if the address has an entry.
\* GetIdByAddr answers NULL, a valid index, when it finds none
\* (ddoscontrol.cpp:64), and the first entry is flagged.
RemovedOnlyListed ==
    reply.text = "CMD_REMOVE_OK" /\ reply.about \in Addr => ~Unlisted(reply.about)

\* "Successfully removed" (msvc/Settings.h:21): the packets of an address whose
\* entry was removed are not stopped because of that entry.
\* is_ipbanned does not look at flagged_removed (ddoscontrol.cpp:24).
RemovedUnblocked ==
    pc = "stopped" /\ ~call.stopit /\ call.ipbanned =>
        \A k \in DOMAIN ddosiplist :
            IsEntryOf(k, call.addr) => ~ddosiplist[k].flagged_removed

\* "This ip address is temporary blocked due packet attacking" (msvc/
\* Settings.h:10): a blocked address gets no further banned packet through.
\* OnRecvFrom looks at the banned list only if the address is not banned
\* (main.cpp:295) and stops a banned address only on the checked list (337-346).
BlockedStaysOut ==
    pc = "delivered" /\ ~Bypass /\ ~Exempt /\ call.pkt \in config.banned => ~call.ipbanned
=============================================================================
