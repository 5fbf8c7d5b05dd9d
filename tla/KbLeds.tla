-------------------------------- MODULE KbLeds ------------------------------
(***************************************************************************)
(* 05-linux-kernel-modules/03-keyboard-leds-sysfs: writes to a sysfs file  *)
(* set a mask, a work item blinks the keyboard LEDs with it, and unloading *)
(* the module ends both.  What holds the mutex is one step; delays of the  *)
(* work are left open.                                                     *)
(***************************************************************************)
EXTENDS Integers

CONSTANTS
    Writers,     \* processes that write the file, one write at a time each
    MaxMask,     \* KEYBOARD_LED_MASK_MAX
    MaxFailures  \* bound on failing calls of set_keyboard_leds

KbLedsAssumption == MaxMask \in Nat \ {0} /\ MaxFailures \in Nat

VARIABLES
    led_mask, leds_are_on, module_is_stopping,
    keyboard,    \* what the LEDs show, Restored when the keyboard driver has them
    pending, active,   \* blink_work: waiting in the queue, taken out of it by a worker
    store,       \* where every write is
    pc,          \* loading and unloading
    failures

state == <<led_mask, leds_are_on, module_is_stopping>>
blink_work == <<pending, active>>
vars == <<state, keyboard, blink_work, store, pc, failures>>

Restored == MaxMask + 1

Init ==
    /\ led_mask = 0 /\ leds_are_on = FALSE /\ module_is_stopping = FALSE
    /\ keyboard = Restored
    /\ pending = FALSE /\ active = FALSE
    /\ store = [w \in Writers |-> "idle"]
    /\ pc = "unloaded" /\ failures = 0

-----------------------------------------------------------------------------
(* Faulty variants of definitions below.                                   *)

InRange_OffByOne(new_mask) == new_mask <= MaxMask + 1
Drained_Always == TRUE
Again_IfLit == leds_are_on'
State_Lit == led_mask

-----------------------------------------------------------------------------

\* set_keyboard_leds: the console may have no terminal.
SetKeyboardLeds(new) ==
    \/ keyboard' = new /\ UNCHANGED failures
    \/ /\ failures < MaxFailures /\ failures' = failures + 1
       /\ UNCHANGED keyboard

\* Nothing is queued while cancel_delayed_work_sync holds the item.
Queued == pc # "cancelling"

\* led_mask_store: the work is queued after the mutex was released.
InRange(new_mask) == new_mask <= MaxMask
Store(w, new_mask) ==
    /\ pc = "loaded" /\ store[w] = "idle" /\ InRange(new_mask)
    /\ led_mask' = new_mask /\ leds_are_on' = FALSE
    /\ store' = [store EXCEPT ![w] = "set"]
    /\ UNCHANGED <<module_is_stopping, keyboard, blink_work, pc, failures>>

StoreQueues(w) ==
    /\ store[w] = "set" /\ store' = [store EXCEPT ![w] = "idle"]
    /\ pending' = (pending \/ Queued)
    /\ UNCHANGED <<state, keyboard, active, pc, failures>>

\* A worker takes the item from the queue; an item never runs twice at a time.
Dequeue ==
    /\ pending /\ ~active /\ pending' = FALSE /\ active' = TRUE
    /\ UNCHANGED <<state, keyboard, store, pc, failures>>

\* blink_work_handler.
State == IF leds_are_on' THEN led_mask ELSE 0
Again == led_mask # 0
Blink ==
    /\ active /\ active' = FALSE
    /\ \/ /\ module_is_stopping
          /\ UNCHANGED <<state, keyboard, pending, failures>>
       \/ /\ ~module_is_stopping
          /\ leds_are_on' = (led_mask # 0 /\ ~leds_are_on)
          /\ SetKeyboardLeds(State)
          /\ pending' = (pending \/ (Again /\ Queued))
          /\ UNCHANGED <<led_mask, module_is_stopping>>
    /\ UNCHANGED <<store, pc>>

-----------------------------------------------------------------------------
(* kbleds_init and kbleds_exit.                                            *)

Load ==
    /\ pc = "unloaded" /\ pc' = "loaded"
    /\ led_mask' = 0 /\ leds_are_on' = FALSE /\ module_is_stopping' = FALSE
    /\ UNCHANGED <<keyboard, blink_work, store, failures>>

Unload ==
    /\ pc = "loaded" /\ pc' = "removing"
    /\ UNCHANGED <<state, keyboard, blink_work, store, failures>>

\* sysfs_remove_file returns when the writes under way have.
Drained == \A w \in Writers : store[w] = "idle"
RemoveFile ==
    /\ pc = "removing" /\ Drained /\ pc' = "stopping"
    /\ UNCHANGED <<state, keyboard, blink_work, store, failures>>

SetStopping ==
    /\ pc = "stopping" /\ module_is_stopping' = TRUE /\ pc' = "cancel"
    /\ UNCHANGED <<led_mask, leds_are_on, keyboard, blink_work, store, failures>>

\* cancel_delayed_work_sync takes the item out of the queue and waits for its handler.
Cancel ==
    /\ pc = "cancel" /\ pending' = FALSE /\ pc' = "cancelling"
    /\ UNCHANGED <<state, keyboard, active, store, failures>>

Flushed == ~active
Restore ==
    /\ pc = "cancelling" /\ Flushed /\ pc' = "unloaded"
    /\ SetKeyboardLeds(Restored)
    /\ UNCHANGED <<state, blink_work, store>>

-----------------------------------------------------------------------------

Work == Dequeue \/ Blink
Exit == RemoveFile \/ SetStopping \/ Cancel \/ Restore

Next ==
    \/ Load \/ Unload \/ Exit \/ Work
    \/ \E w \in Writers : StoreQueues(w) \/ \E new_mask \in 0..(MaxMask + 1) : Store(w, new_mask)

\* A worker takes what is in the queue.
Fairness == WF_vars(Work)

Spec == Init /\ [][Next]_vars
FairSpec == Spec /\ Fairness

-----------------------------------------------------------------------------
(* Properties.                                                             *)

\* Every variable keeps to its type.
TypeOK ==
    /\ led_mask \in 0..MaxMask /\ keyboard \in 0..Restored
    /\ {leds_are_on, module_is_stopping, pending, active} \subseteq BOOLEAN
    /\ store \in [Writers -> {"idle", "set"}]
    /\ pc \in {"unloaded", "loaded", "removing", "stopping", "cancel", "cancelling"}
    /\ failures \in 0..MaxFailures

\* When kbleds_exit has returned, nothing of the module is queued or running any more, and
\* the LEDs are the keyboard's again unless that very call failed.
QuietAfterUnload ==
    pc = "unloaded" =>
        /\ ~pending /\ ~active /\ \A w \in Writers : store[w] = "idle"
        /\ keyboard = Restored \/ failures > 0

\* A write is never lost on the way to the LEDs: as long as they do not show what the mask
\* asks for, the work is queued or running, or a write is about to queue it.
ChangeNoticed ==
    pc = "loaded" /\ (led_mask # 0 \/ keyboard \notin {0, Restored}) /\ failures = 0 =>
        pending \/ active \/ \E w \in Writers : store[w] = "set"

\* The work is queued while there is something to do, and only then.
WorkSound == QuietAfterUnload /\ ChangeNoticed

\* A mask that nobody writes any more is followed in the end: its LEDs go on and off for
\* ever, and with the mask 0 they stay dark (if the console took every call).
Settled(mask) == pc = "loaded" /\ led_mask = mask /\ \A w \in Writers : store[w] = "idle"
Dark == keyboard = 0 \/ (led_mask = 0 /\ (keyboard = Restored \/ failures > 0))
FollowsMask ==
    /\ []<>(\A m \in 1..MaxMask : Settled(m) => keyboard = m)
    /\ []<>(\A m \in 0..MaxMask : Settled(m) => Dark)

=============================================================================
