---------------------------- MODULE RunContract ----------------------------
(***************************************************************************)
(* What run_once_profiled promises about the caller's output Buffers,      *)
(* whatever happens inside: they are the caller's until the method has     *)
(* run; then they are filled in order, each within the size it was offered *)
(* with; and a call either fills them all and says kOk, or stops at one,   *)
(* says kOutput and may leave there the size that one needs, or never got  *)
(* that far, says so, and has changed nothing.  Only a caller that offers  *)
(* a Buffer with more bytes than it has loses all of this.                 *)
(***************************************************************************)
EXTENDS Naturals

CONSTANTS NBuffers, Capacities, Stages

VARIABLES phase,   \* "idle", "running", "delivering" or "dead"
          wanted,  \* how many outputs the call asks for
          done,    \* how many it has been given
          buf,     \* the caller's Buffers
          stage    \* what the last call returned

cvars == <<phase, wanted, done, buf, stage>>

Filled(b, val, size) == [null |-> b.null, cap |-> b.cap, size |-> size, val |-> val]

ContractInit ==
  /\ phase = "idle" /\ wanted \in 0..NBuffers /\ done = 0 /\ stage = "none"
  /\ buf \in [1..NBuffers -> {[null |-> c = 0, cap |-> c, size |-> c,
                               val |-> "old"] : c \in Capacities}]

Ask ==
  /\ phase = "idle"
  /\ phase' = "running" /\ wanted' \in 0..NBuffers /\ done' = 0
  /\ stage' = "none"
  /\ buf' = [i \in 1..NBuffers |-> Filled(buf[i], "old", buf[i].size)]

Resize(i) ==
  /\ phase = "idle"
  /\ \/ /\ buf[i].size > buf[i].cap \/ buf[i].null
        /\ buf' = [buf EXCEPT ![i] = [null |-> FALSE, cap |-> buf[i].size,
                                       size |-> buf[i].size, val |-> buf[i].val]]
     \/ /\ buf[i].size # buf[i].cap
        /\ buf' = [buf EXCEPT ![i] = Filled(buf[i], buf[i].val, buf[i].cap)]
  /\ UNCHANGED <<phase, wanted, done, stage>>

\* The call fails before it has anything to deliver.
Refuse ==
  /\ phase = "running" /\ phase' = "idle"
  /\ stage' \in Stages \ {"none", "kOk", "kOutput"}
  /\ UNCHANGED <<wanted, done, buf>>

Compute ==
  /\ phase = "running" /\ phase' = "delivering"
  /\ UNCHANGED <<wanted, done, buf, stage>>

Deliver ==
  /\ phase = "delivering" /\ done < wanted
  /\ ~buf[done + 1].null
  /\ \E n \in 0..buf[done + 1].size :
       /\ n <= buf[done + 1].cap
       /\ buf' = [buf EXCEPT ![done + 1] = Filled(buf[done + 1], "new", n)]
  /\ done' = done + 1
  /\ UNCHANGED <<phase, wanted, stage>>

\* The call stops at a Buffer: its tensor cannot be copied, or it is null or
\* too small, and then its size becomes the one it needs.
Stop ==
  /\ phase = "delivering" /\ done < wanted
  /\ phase' = "idle" /\ stage' = "kOutput"
  /\ \/ UNCHANGED buf
     \/ \E n \in {buf'[done + 1].size} :
          /\ buf[done + 1].null \/ n > buf[done + 1].size
          /\ buf' = [buf EXCEPT ![done + 1] = Filled(buf[done + 1], buf[done + 1].val, n)]
  /\ UNCHANGED <<wanted, done>>

Complete ==
  /\ phase = "delivering" /\ done = wanted
  /\ phase' = "idle" /\ stage' = "kOk"
  /\ UNCHANGED <<wanted, done, buf>>

\* ExecuTorch aborts the program inside the call.
Die == phase = "running" /\ phase' = "dead" /\ UNCHANGED <<wanted, done, buf, stage>>

\* The caller offered more than it has, and the call believed it.
Spill ==
  /\ phase = "delivering" /\ done < wanted
  /\ ~buf[done + 1].null /\ buf[done + 1].size > buf[done + 1].cap
  /\ phase' = "dead" /\ UNCHANGED <<wanted, done, buf, stage>>

ContractNext == \/ Ask \/ Refuse \/ Compute \/ Deliver \/ Stop \/ Complete \/ Die \/ Spill
                \/ \E i \in 1..NBuffers : Resize(i)

Contract == ContractInit /\ [][ContractNext]_cvars
=============================================================================
