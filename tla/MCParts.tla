------------------------------ MODULE MCParts ------------------------------
(***************************************************************************)
(* The data structures and the sequential algorithms the rest of the       *)
(* system relies on.  They share no state, so a behaviour works on one of  *)
(* them, its subject, and the others keep a start state.                   *)
(***************************************************************************)
EXTENDS MCTcpSeq, PacketMem, Timeouts, FlowTable, QMan, CongestionControl, Epoll, FastCore,
        AppReg, TasHost

CONSTANTS f1, f2, f3, f4, q1

VARIABLE subject
partVars == <<call, answer, freelist, allocated, tm, ft, qm, cc, po, fc, rg, th, subject>>

\* Four flows compete for the two neighbourhoods that overlap.
SmallHash == [f \in Flows |-> IF f \in {f1, f2} THEN 0 ELSE 1]

\* One flow changes between a rate and no limit, the other has a rate.
SmallRates == {[q \in Queues |-> IF q = q1 THEN {0, 1} ELSE {1}]}

NoCall == [fn |-> "none"]
Some(S) == CHOOSE x \in S : TRUE

PartsInit ==
  /\ subject \in {"seq", "mem", "timeouts", "flowtable", "qman", "cc", "epoll", "core", "appreg",
                "tashost"}
  /\ answer = <<>> /\ call \in IF subject = "seq" THEN Calls ELSE {NoCall}
  /\ Init
  /\ tm \in IF subject = "timeouts" THEN TimeoutsStart ELSE {Some(TimeoutsStart)}
  /\ ft \in IF subject = "flowtable" THEN FlowTableStart ELSE {Some(FlowTableStart)}
  /\ qm \in IF subject = "qman" THEN QManStart ELSE {Some(QManStart)}
  /\ cc \in IF subject = "cc" THEN CongestionControlStart ELSE {Some(CongestionControlStart)}
  /\ rg \in IF subject = "appreg" THEN AppRegStart ELSE {Some(AppRegStart)}
  /\ po \in EpollStart /\ fc \in FastCoreStart /\ th \in TasHostStart

PartsNext ==
  /\ UNCHANGED subject
  /\ \/ subject = "seq" /\ SeqNext
        /\ UNCHANGED <<vars, tm, ft, qm, cc, po, fc, rg, th>>
     \/ subject = "mem" /\ Next
        /\ UNCHANGED <<seqVars, tm, ft, qm, cc, po, fc, rg, th>>
     \/ subject = "timeouts" /\ TimeoutsNext
        /\ UNCHANGED <<seqVars, vars, ft, qm, cc, po, fc, rg, th>>
     \/ subject = "flowtable" /\ FlowTableNext
        /\ UNCHANGED <<seqVars, vars, tm, qm, cc, po, fc, rg, th>>
     \/ subject = "qman" /\ QManNext
        /\ UNCHANGED <<seqVars, vars, tm, ft, cc, po, fc, rg, th>>
     \/ subject = "cc" /\ CongestionControlNext
        /\ UNCHANGED <<seqVars, vars, tm, ft, qm, po, fc, rg, th>>
     \/ subject = "epoll" /\ EpollNext
        /\ UNCHANGED <<seqVars, vars, tm, ft, qm, cc, fc, rg, th>>
     \/ subject = "core" /\ FastCoreNext
        /\ UNCHANGED <<seqVars, vars, tm, ft, qm, cc, po, rg, th>>
     \/ subject = "appreg" /\ AppRegNext
        /\ UNCHANGED <<seqVars, vars, tm, ft, qm, cc, po, fc, th>>
     \/ subject = "tashost" /\ TasHostNext
        /\ UNCHANGED <<seqVars, vars, tm, ft, qm, cc, po, fc, rg>>

PartsSpec == PartsInit /\ [][PartsNext]_partVars
=============================================================================
