------------------------------- MODULE MCWork -------------------------------
(* Model-checking instances of WorkRecovery.                               *)
EXTENDS WorkRecovery

(* Every state is well typed, and no call is stuck in it: a mutex or slot     *)
(* that an error kept would show as either (controller.ts 20-34, 334-343).   *)
Healthy == TypeOK /\ NoCallStuck

\* Bounds of the races: a behaviour verifies or renews; or it is shut down, makes
\* one step, and finishes or renews.
RacesInit ==
  \/ InitWith({"shutdown"}, MaxRenews) \/ InitWith(Verifs \cup {"shutdown"}, 0)
  \/ /\ InitWith(Steps \ Tracked, MaxRenews) \/ InitWith((Steps \ Tracked) \cup {"finish"}, 0)
     /\ approved
RacesSpec == RacesInit /\ [][Next]_vars

\* Bounds of the crashes: a completion grant is there, and may be revoked.
CrashesInit == Init /\ approved
CrashesSpec == CrashesInit /\ [][Next]_vars
=============================================================================
