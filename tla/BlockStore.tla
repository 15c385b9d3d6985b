----------------------------- MODULE BlockStore -----------------------------
(* What the buffer cache and the disk driver promise: blocks, each of them     *)
(* held by at most one thread at a time, which alone changes it and has it      *)
(* written.  What was not written may be forgotten, unless the block is pinned. *)
CONSTANTS Blknos, Vals, Threads

VARIABLES held,     \* <<n, t>>: thread t holds block n
          content,  \* what a thread that holds the block sees
          stored,   \* what the disk has
          pinned

bsvars == <<held, content, stored, pinned>>

Free(n) == \A t \in Threads : <<n, t>> \notin held

Hold(n, t) == Free(n) /\ held' = held \cup {<<n, t>>} /\ UNCHANGED <<content, stored, pinned>>
Give(n, t) == held' = held \ {<<n, t>>} /\ UNCHANGED <<content, stored, pinned>>
Change(n, v) == ~Free(n) /\ content' = [content EXCEPT ![n] = v] /\ UNCHANGED <<held, stored, pinned>>
Save(n) == ~Free(n) /\ stored' = [stored EXCEPT ![n] = content[n]] /\ UNCHANGED <<held, content, pinned>>
Pin(n) == ~Free(n) /\ pinned' \in {pinned \cup {n}, pinned \ {n}} /\ UNCHANGED <<held, content, stored>>
Forget(n) == /\ Free(n) /\ n \notin pinned /\ content[n] # stored[n]
             /\ content' = [content EXCEPT ![n] = stored[n]]
             /\ UNCHANGED <<held, stored, pinned>>

StoreInit == held = {} /\ stored \in [Blknos -> Vals] /\ content = stored /\ pinned = {}

StoreNext == \E n \in Blknos :
  \/ \E t \in Threads : Hold(n, t) \/ Give(n, t)
  \/ Save(n) \/ Pin(n) \/ Forget(n)
  \/ \E v \in Vals : Change(n, v)

StoreSpec == StoreInit /\ [][StoreNext]_bsvars
=============================================================================
