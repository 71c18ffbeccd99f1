------------------------------- MODULE ByteStream -----------------------------
(***************************************************************************)
(* What a queue between two sides promises (include/rdma_queue.h: "Single  *)
(* producer-single consumer queue"): a bounded stream of bytes.  The       *)
(* sender appends and publishes; the receiver reads the next published     *)
(* bytes and takes them.  Bytes are their places in the stream, so a read  *)
(* is right exactly when it returns consecutive numbers from taken on.     *)
(***************************************************************************)
EXTENDS Integers, Sequences

CONSTANT Capacity    \* bytes that may be sent and not taken

VARIABLES sent, visible, taken,   \* bytes appended, published and taken
          reading                 \* what the receiver has read and not yet taken
vars == <<sent, visible, taken, reading>>

Init == sent = 0 /\ visible = 0 /\ taken = 0 /\ reading = <<>>

Send(n) ==
  /\ sent + n - taken <= Capacity
  /\ sent' = sent + n
  /\ UNCHANGED <<visible, taken, reading>>

Publish(n) ==
  /\ visible + n <= sent
  /\ visible' = visible + n
  /\ UNCHANGED <<sent, taken, reading>>

Read(n) ==
  /\ reading = <<>>
  /\ taken + n <= visible
  /\ reading' = [i \in 1 .. n |-> taken + i - 1]
  /\ UNCHANGED <<sent, visible, taken>>

Take ==
  /\ taken' = taken + Len(reading)
  /\ reading' = <<>>
  /\ UNCHANGED <<sent, visible>>

PutBack ==
  /\ reading' = <<>>
  /\ UNCHANGED <<sent, visible, taken>>

Next ==
  \/ \E n \in 1 .. Capacity : Send(n) \/ Publish(n) \/ Read(n)
  \/ Take \/ PutBack
Spec == Init /\ [][Next]_vars
===============================================================================
