---------------------------- MODULE KbLeds_proofs ---------------------------
(***************************************************************************)
(* What holds of KbLeds for any number of writers, any largest mask and    *)
(* any number of failing calls: when the module is gone nothing of it is   *)
(* queued or running, and while it is loaded no write gets lost.           *)
(*                                                                         *)
(* Both follow from one invariant, which says in which stages of loading   *)
(* and unloading a write may be under way, the work may be queued, and the *)
(* handler may take the work for the last of its kind.                     *)
(***************************************************************************)
EXTENDS KbLeds, TLAPS

\* A write is under way only while the file exists.
WritesInv == \A w \in Writers : store[w] = "set" => pc \in {"loaded", "removing"}

\* The handler is told to stop after the file is gone, and not before.
StoppingInv == pc \in {"loaded", "removing", "stopping"} => ~module_is_stopping

\* cancel_delayed_work_sync empties the queue, and nothing is queued again.
QueueInv == pc \in {"cancelling", "unloaded"} => ~pending

\* It also waits for the handler, and the LEDs are given back afterwards.
QuietInv == pc = "unloaded" => ~active /\ (keyboard = Restored \/ failures > 0)

IInv == TypeOK /\ WritesInv /\ StoppingInv /\ QueueInv /\ QuietInv /\ ChangeNoticed

LEMMA Typing ==
    ASSUME KbLedsAssumption, TypeOK
    PROVE  /\ pending \in BOOLEAN /\ active \in BOOLEAN
           /\ leds_are_on \in BOOLEAN /\ module_is_stopping \in BOOLEAN
           /\ Restored \in Nat /\ 0 \in 0..Restored /\ Restored \in 0..Restored
           /\ 0..MaxMask \subseteq 0..Restored /\ 0 \in 0..MaxMask
           /\ failures \in Nat /\ MaxFailures \in Nat
BY DEF KbLedsAssumption, TypeOK, Restored

LEMMA InitTyped == ASSUME KbLedsAssumption, Init PROVE IInv
<1>1. TypeOK
  <2>1. led_mask \in 0..MaxMask /\ keyboard \in 0..Restored /\ failures \in 0..MaxFailures
    BY DEF KbLedsAssumption, Init, Restored
  <2>2. {leds_are_on, module_is_stopping, pending, active} \subseteq BOOLEAN
    BY DEF Init
  <2> QED
    BY <2>1, <2>2 DEF Init, TypeOK
<1>2. WritesInv /\ StoppingInv /\ QueueInv /\ QuietInv /\ ChangeNoticed
  BY DEF Init, WritesInv, StoppingInv, QueueInv, QuietInv, ChangeNoticed
<1> QED
  BY <1>1, <1>2 DEF IInv

\* Every step keeps the types; the mask is checked before it is set.
LEMMA TypeStep == ASSUME KbLedsAssumption, TypeOK, [Next]_vars PROVE TypeOK'
<1> USE Typing
<1>1. CASE \E w \in Writers, new_mask \in 0..(MaxMask + 1) : Store(w, new_mask)
  <2>1. PICK w \in Writers, new_mask \in 0..(MaxMask + 1) : Store(w, new_mask)
    BY <1>1
  <2>2. led_mask' \in 0..MaxMask
    BY <2>1 DEF KbLedsAssumption, Store, InRange
  <2>3. leds_are_on' = FALSE /\ store' \in [Writers -> {"idle", "set"}]
    BY <2>1 DEF TypeOK, Store
  <2>4. /\ module_is_stopping' = module_is_stopping /\ keyboard' = keyboard
        /\ pending' = pending /\ active' = active /\ pc' = pc /\ failures' = failures
    BY <2>1 DEF Store, blink_work
  <2> QED
    BY <2>2, <2>3, <2>4 DEF TypeOK
<1>2. CASE \E w \in Writers : StoreQueues(w)
  BY <1>2 DEF TypeOK, StoreQueues, Queued, state
<1>3. CASE Dequeue
  BY <1>3 DEF TypeOK, Dequeue, state
<1>4. CASE Blink
  <2>1. SetKeyboardLeds(State) => keyboard' \in 0..Restored /\ failures' \in 0..MaxFailures
    BY DEF TypeOK, SetKeyboardLeds, State
  <2>2. leds_are_on' \in BOOLEAN /\ pending' \in BOOLEAN
    BY <1>4 DEF Blink, state
  <2> QED
    BY <1>4, <2>1, <2>2 DEF TypeOK, Blink, state
<1>5. CASE Load
  BY <1>5 DEF TypeOK, Load, blink_work
<1>6. CASE Unload \/ RemoveFile \/ SetStopping \/ Cancel
  BY <1>6 DEF TypeOK, Unload, RemoveFile, SetStopping, Cancel, blink_work, state
<1>7. CASE Restore
  BY <1>7 DEF TypeOK, Restore, SetKeyboardLeds, blink_work, state
<1>8. CASE UNCHANGED vars
  BY <1>8 DEF TypeOK, vars, state, blink_work
<1> QED
  BY <1>1, <1>2, <1>3, <1>4, <1>5, <1>6, <1>7, <1>8 DEF Next, Exit, Work

\* Every step keeps the stages apart.
LEMMA StageStep ==
    ASSUME KbLedsAssumption, IInv, [Next]_vars
    PROVE  WritesInv' /\ StoppingInv' /\ QueueInv' /\ QuietInv'
<1> USE DEF IInv
<1>1. CASE \E w \in Writers, new_mask \in 0..(MaxMask + 1) : Store(w, new_mask)
  <2>1. PICK w \in Writers, new_mask \in 0..(MaxMask + 1) : Store(w, new_mask)
    BY <1>1
  <2> QED
    BY <2>1 DEF TypeOK, Store, blink_work, WritesInv, StoppingInv, QueueInv, QuietInv
<1>2. CASE \E w \in Writers : StoreQueues(w)
  <2>1. PICK w \in Writers : StoreQueues(w)
    BY <1>2
  <2>2. pc \in {"loaded", "removing"}
    BY <2>1 DEF StoreQueues, WritesInv
  <2>3. WritesInv'
    BY <2>1, <2>2 DEF TypeOK, StoreQueues, WritesInv
  <2> QED
    BY <2>1, <2>2, <2>3 DEF StoreQueues, state, StoppingInv, QueueInv, QuietInv
<1>3. CASE Dequeue
  BY <1>3 DEF Dequeue, state, WritesInv, StoppingInv, QueueInv, QuietInv
<1>4. CASE Blink
  <2>1. active /\ ~active' /\ pc' = pc /\ store' = store
    BY <1>4 DEF Blink
  <2>2. module_is_stopping' = module_is_stopping
    BY <1>4 DEF Blink, state
  <2>3. pc \in {"cancelling", "unloaded"} => ~pending'
    BY <1>4, <2>1 DEF Blink, Queued, QueueInv, QuietInv
  <2>4. pc # "unloaded"
    BY <2>1 DEF QuietInv
  <2> QED
    BY <2>1, <2>2, <2>3, <2>4 DEF WritesInv, StoppingInv, QueueInv, QuietInv
<1>5. CASE Load
  BY <1>5 DEF Load, blink_work, WritesInv, StoppingInv, QueueInv, QuietInv
<1>6. CASE Unload
  BY <1>6 DEF Unload, state, blink_work, WritesInv, StoppingInv, QueueInv, QuietInv
<1>7. CASE RemoveFile
  BY <1>7 DEF RemoveFile, Drained, state, blink_work, WritesInv, StoppingInv, QueueInv, QuietInv
<1>8. CASE SetStopping
  BY <1>8 DEF SetStopping, blink_work, WritesInv, StoppingInv, QueueInv, QuietInv
<1>9. CASE Cancel
  BY <1>9 DEF Cancel, state, WritesInv, StoppingInv, QueueInv, QuietInv
<1>10. CASE Restore
  <2>1. keyboard' = Restored \/ failures' > 0
    BY <1>10, Typing DEF Restore, SetKeyboardLeds, Restored, TypeOK
  <2> QED
    BY <1>10, <2>1 DEF Restore, Flushed, state, blink_work, WritesInv, StoppingInv, QueueInv,
                       QuietInv, Restored
<1>11. CASE UNCHANGED vars
  BY <1>11 DEF vars, state, blink_work, WritesInv, StoppingInv, QueueInv, QuietInv, Restored
<1> QED
  BY <1>1, <1>2, <1>3, <1>4, <1>5, <1>6, <1>7, <1>8, <1>9, <1>10, <1>11 DEF Next, Exit, Work

\* No step forgets a change: a write is going to queue the work, the work in the queue is
\* going to run, and the handler queues it again or has just shown what the mask asks for.
LEMMA NoticedStep == ASSUME KbLedsAssumption, IInv, [Next]_vars PROVE ChangeNoticed'
<1> USE DEF IInv
<1>1. CASE \E w \in Writers, new_mask \in 0..(MaxMask + 1) : Store(w, new_mask)
  <2>1. PICK w \in Writers, new_mask \in 0..(MaxMask + 1) : Store(w, new_mask)
    BY <1>1
  <2>2. store'[w] = "set"
    BY <2>1 DEF TypeOK, Store
  <2> QED
    BY <2>2 DEF ChangeNoticed
<1>2. CASE \E w \in Writers : StoreQueues(w)
  BY <1>2 DEF StoreQueues, Queued, state, ChangeNoticed
<1>3. CASE Dequeue
  BY <1>3 DEF Dequeue, ChangeNoticed
<1>4. CASE Blink
  <2> SUFFICES ASSUME pc = "loaded", failures' = 0, ~pending'
               PROVE  led_mask' = 0 /\ keyboard' \in {0, Restored}
    BY <1>4 DEF Blink, ChangeNoticed, Restored
  <2>1. ~module_is_stopping
    BY DEF StoppingInv
  <2>2. /\ leds_are_on' = (led_mask # 0 /\ ~leds_are_on) /\ SetKeyboardLeds(State)
        /\ led_mask' = led_mask /\ pending' = (pending \/ (Again /\ Queued))
    BY <1>4, <2>1 DEF Blink
  <2>3. led_mask = 0
    BY <2>2 DEF Again, Queued
  <2>4. keyboard' = State
    BY <2>2, Typing DEF SetKeyboardLeds, TypeOK
  <2> QED
    BY <2>2, <2>3, <2>4 DEF State
<1>5. CASE Load
  BY <1>5, Typing DEF Load, QuietInv, ChangeNoticed, Restored, TypeOK
<1>6. CASE Unload \/ RemoveFile \/ SetStopping \/ Cancel \/ Restore
  BY <1>6 DEF Unload, RemoveFile, SetStopping, Cancel, Restore, ChangeNoticed
<1>7. CASE UNCHANGED vars
  BY <1>7 DEF vars, state, blink_work, ChangeNoticed, Restored
<1> QED
  BY <1>1, <1>2, <1>3, <1>4, <1>5, <1>6, <1>7 DEF Next, Exit, Work

LEMMA Invariant == ASSUME KbLedsAssumption PROVE Spec => []IInv
<1>1. Init => IInv
  BY InitTyped
<1>2. IInv /\ [Next]_vars => IInv'
  BY TypeStep, StageStep, NoticedStep DEF IInv
<1> QED
  BY <1>1, <1>2, PTL DEF Spec

\* Every variable keeps to its type; led_mask_store lets no mask through that is too large.
THEOREM TypeCorrect == ASSUME KbLedsAssumption PROVE Spec => []TypeOK
<1>1. IInv => TypeOK
  BY DEF IInv
<1> QED
  BY <1>1, Invariant, PTL

\* The work is queued or running while the LEDs do not show the mask, and kbleds_exit leaves
\* nothing queued or running, however writes, the handler and the unloading overlap.
THEOREM WorkIsSound == ASSUME KbLedsAssumption PROVE Spec => []WorkSound
<1>1. IInv => WorkSound
  <2> SUFFICES ASSUME IInv PROVE WorkSound
    OBVIOUS
  <2>1. pc = "unloaded" => \A w \in Writers : store[w] = "idle"
    BY DEF IInv, WritesInv, TypeOK
  <2> QED
    BY <2>1 DEF IInv, QueueInv, QuietInv, QuietAfterUnload, WorkSound
<1> QED
  BY <1>1, Invariant, PTL
=============================================================================
