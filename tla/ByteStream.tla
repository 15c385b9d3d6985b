----------------------------- MODULE ByteStream -----------------------------
(* What a pipe promises: each byte that was put in comes out once, in order,  *)
(* at one reader, or is lost when both sides have been closed.                *)
EXTENDS Naturals, Sequences

CONSTANTS Pages, Bytes, Capacity

VARIABLES queue,  \* queue[k]: the bytes on their way in pipe k
          got     \* the byte that was taken last

svars == <<queue, got>>

Put(k, b) ==
  /\ Len(queue[k]) < Capacity
  /\ queue' = [queue EXCEPT ![k] = Append(@, b)]
  /\ UNCHANGED got

Take(k) ==
  /\ queue[k] # <<>>
  /\ got' = Head(queue[k])
  /\ queue' = [queue EXCEPT ![k] = Tail(@)]

Drop(k) == queue[k] # <<>> /\ queue' = [queue EXCEPT ![k] = <<>>] /\ UNCHANGED got

StreamInit == queue = [k \in Pages |-> <<>>] /\ got \in Bytes

StreamNext == \E k \in Pages :
  Drop(k) \/ (\E b \in Bytes : Put(k, b)) \/ Take(k)

StreamSpec == StreamInit /\ [][StreamNext]_svars
=============================================================================
