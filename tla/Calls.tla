-------------------------------- MODULE Calls --------------------------------
(***************************************************************************)
(* The layers of the library that keep no state: a program calls a         *)
(* function, looks at what it returned, and goes on to the next call.  The *)
(* only variable is the call at hand, with its arguments and its result.   *)
(***************************************************************************)
CONSTANT NULL       \* no answer, a null pointer
VARIABLE call

NoCall == [fn |-> "none"]
CallsInit == call = NoCall

Idle == call = NoCall

\* A function is called and returns.
Called(fn, args, result) == call' = [fn |-> fn, args |-> args, result |-> result]

\* The program goes on.
Forget == ~Idle /\ call' = NoCall
=============================================================================
