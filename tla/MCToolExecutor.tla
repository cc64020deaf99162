--------------------------- MODULE MCToolExecutor ---------------------------
(***************************************************************************)
(* Model-checking instance of ToolExecutor for two questions that need       *)
(* different sizes: what two invocations with two sinks leave on record when *)
(* their calls throw, while authority and catalog stay as they are           *)
(* ("journals"), and under what one invocation without sinks and with two    *)
(* policies is entered while they change ("authority").  The two executors   *)
(* have no state in common, so a behaviour exercises one, `part` says which. *)
(***************************************************************************)
EXTENDS ToolExecutor, TLC

CONSTANT Alone

VARIABLES
  part,
  a_pc, a_stage, a_at, a_mode, a_journalState, a_phase, a_outcome, a_asked,
  a_denied, a_receiptRefs, a_entered, a_upset, a_heard, a_told, a_slots,
  a_log, a_aborted, a_expired, a_stale, a_grant, a_lapsed, a_revoked,
  a_faults

authority ==
  <<a_pc, a_stage, a_at, a_mode, a_journalState, a_phase, a_outcome, a_asked,
    a_denied, a_receiptRefs, a_entered, a_upset, a_heard, a_told, a_slots,
    a_log, a_aborted, a_expired, a_stale, a_grant, a_lapsed, a_revoked,
    a_faults>>

TwoSinks  == <<"journal", "lifecycle">>
OnePolicy == <<"executor">>

Authority == INSTANCE ToolExecutor WITH
  Invocations <- {Alone}, Sinks <- <<>>, Policies <- <<"executor", "registry">>,
  MaxRefs <- 2, MaxFaults <- 0,
  pc <- a_pc, stage <- a_stage, at <- a_at, mode <- a_mode,
  journalState <- a_journalState, phase <- a_phase, outcome <- a_outcome,
  asked <- a_asked, denied <- a_denied, receiptRefs <- a_receiptRefs,
  entered <- a_entered, upset <- a_upset, heard <- a_heard, told <- a_told,
  slots <- a_slots, log <- a_log, aborted <- a_aborted, expired <- a_expired,
  stale <- a_stale, grant <- a_grant, lapsed <- a_lapsed,
  revoked <- a_revoked, faults <- a_faults

\* The executor that is not exercised has one initial state.
Quiet(modes) == \A i \in DOMAIN modes : modes[i] = "exclusive"

MCInit ==
  /\ Init /\ Authority!Init
  /\ \/ part = "journals" /\ Quiet(a_mode)
     \/ part = "authority" /\ Quiet(mode)
MCNext ==
  /\ UNCHANGED part
  /\ \/ part = "journals" /\ (\E i \in Invocations : Step(i) \/ Abort(i)) /\ UNCHANGED authority
     \/ part = "authority" /\ Authority!Next /\ UNCHANGED vars
MCSpec == MCInit /\ [][MCNext]_<<part, vars, authority>>

Symmetry == Permutations(Invocations)

-----------------------------------------------------------------------------
(* A handler is entered under the authority its receipt names (executor.ts    *)
(* 268-291).                                                                 *)
AuthorityCovers == Authority!EnteredUnderReceipt
=============================================================================
