----------------------------- MODULE ServerCvars -----------------------------
(***************************************************************************)
(* The server variables (cvars) an operator sets, and the copy of them the *)
(* plugin works with.  SetCvarsValue (main.cpp:210-232) refreshes the copy *)
(* on packet arrival, at most once every two seconds, and clamps most      *)
(* values; ip_cleartime it takes as it is.                                 *)
(*                                                                         *)
(* The variables about logs and warnings are left out: nothing the plugin  *)
(* decides depends on them.  Values are integers here, floats in the code. *)
(***************************************************************************)
EXTENDS DdosControl

CONSTANTS
    CvarSettings,   \* the settings of the server variables an operator may choose
    BanRange,       \* <<30, 3600>> in the code: limits of ban_time
    WindowRange,    \* <<1, 30>>: limits of flood_time
    SingleRange,    \* <<3, 300>>: limits of flood_single
    TotalRange      \* <<5, 3000>>: limits of flood_max

Setting == [ban_time : Int, flood_time : Int, flood_single : Int, flood_max : Int,
            check_single : Int, check_total : Int, securetype : Int,
            ip_cleartime : Int, ban_bannedpacketip : Int, enabled_allowed_ip : Int]

clampf(value, range) == IF value < range[1] THEN range[1]
                        ELSE IF value > range[2] THEN range[2] ELSE value

\* What SetCvarsValue stores in the ban list, in secure_type and in the
\* globals cvarvalue_*.
OptionsOf(c) ==
    [e_ban_suresi         |-> clampf(c.ban_time, BanRange),
     e_paket_cache_suresi |-> clampf(c.flood_time, WindowRange),
     e_teksefer_limit     |-> clampf(c.flood_single, SingleRange),
     e_toplam_limit       |-> clampf(c.flood_max, TotalRange),
     check_single_flood   |-> c.check_single # 0,
     check_total_flood    |-> c.check_total # 0]

\* Mutant: the value is not clamped.
SecureTypeOf_Unclamped(c) == c.securetype

SecureTypeOf(c) == clampf(c.securetype, <<0, 2>>)

CvarvalueOf(c) == [enable_allowedip |-> c.enabled_allowed_ip > 0,
                   cleartime        |-> c.ip_cleartime,
                   banpacketip      |-> c.ban_bannedpacketip > 0]

ASSUME CvarAssumptions ==
    /\ CvarSettings \subseteq Setting /\ CvarSettings # {}
    /\ \A c \in CvarSettings : OptionsOf(c) \in Options

VARIABLES
    cvars,         \* the server variables themselves
    secure_type,   \* 0: off, 1: on, 2: on for the banned packets only
    cvarvalue,     \* the globals cvarvalue_*
    lastTime       \* when they were last copied

settings_vars == <<secure_type, cvarvalue, lastTime>>

Throttled == lastTime > 0 /\ clock - lastTime <= 1

\* Mutant: every call restarts the throttle.
SetCvarsValue_Restarts ==
    /\ \/ Throttled /\ UNCHANGED <<control_vars, secure_type, cvarvalue>>
       \/ /\ ~Throttled
          /\ SetOptions(OptionsOf(cvars))
          /\ secure_type' = SecureTypeOf(cvars)
          /\ cvarvalue' = CvarvalueOf(cvars)
    /\ lastTime' = clock

SetCvarsValue ==
    \/ Throttled /\ UNCHANGED <<control_vars, settings_vars>>
    \/ /\ ~Throttled
       /\ SetOptions(OptionsOf(cvars))
       /\ secure_type' = SecureTypeOf(cvars)
       /\ cvarvalue' = CvarvalueOf(cvars)
       /\ lastTime' = clock

\* EngineFuncLoaded registers the variables and copies them for the first
\* time; metamod calls it after the plugin is attached.
CvarsInit ==
    /\ cvars \in CvarSettings
    /\ opts = OptionsOf(cvars)
    /\ secure_type = SecureTypeOf(cvars)
    /\ cvarvalue = CvarvalueOf(cvars)
    /\ lastTime = clock

CvarsTypeOK ==
    /\ cvars \in CvarSettings
    /\ secure_type \in 0..2
    /\ cvarvalue \in {CvarvalueOf(c) : c \in CvarSettings}
    /\ lastTime \in Nat
=============================================================================
