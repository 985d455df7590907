------------------------------ MODULE FlowControl -----------------------------
(***************************************************************************)
(* connection/flow_control.rs: the flow control object of a connection.    *)
(* One object serves both directions: `consume` is called for the bytes    *)
(* that are sent and for the bytes that are received.                      *)
(***************************************************************************)
EXTENDS MachineInt

CONSTANT DefaultWindow  \* frame::DEFAULT_INITIAL_WINDOW_SIZE, 65535 in the code

ASSUME FlowControlAssumption == DefaultWindow \in 2 .. I32Max

FlowType == [window: I32, initial: U32, consumed: U32, threshold: U32]

NewFlow(size) ==
    [window    |-> AsI32(size), initial   |-> size,
     consumed  |-> 0,           threshold |-> size \div 2]

\* SEEDED FAULT: the update counter forgets the bytes of this call.
ConsumeUncounted(f, n) == [f EXCEPT !.window = WrapI32(@ - AsI32(n))]

Consume(f, n) ==
    [f EXCEPT !.window = WrapI32(@ - AsI32(n)), !.consumed = WrapU32(@ + n)]

\* SEEDED FAULT: an update becomes due one byte too late.
ShouldUpdateLate(f) == f.consumed > f.threshold + 1

ShouldUpdate(f) == f.consumed >= f.threshold

\* SEEDED FAULT: the counter is cleared but the window is not refilled.
ResetPendingNoRefill(f) == [f EXCEPT !.consumed = 0]

ResetPending(f) ==
    [f EXCEPT !.window = WrapI32(@ + AsI32(f.consumed)), !.consumed = 0]

\* SEEDED FAULT: the increment is added without a look at the limit.
CanIncreaseUnchecked(window, increment) == TRUE

\* increase_window returns FALSE, and changes nothing, where this is FALSE.
CanIncrease(window, increment) == window + increment <= I32Max

IncreaseWindow(f, increment) == [f EXCEPT !.window = @ + increment]
===============================================================================
