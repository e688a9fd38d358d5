----------------------------- MODULE MCKeyboard -----------------------------
(***************************************************************************)
(* The letter a, enter, backspace, shift and lock; a screen of two columns *)
(* on which a message of six characters is cut off and wraps.              *)
(***************************************************************************)
EXTENDS Keyboard

SomeKeys == {30, Enter, Backspace, LeftShift, Lock}

Text(codes_) == [n \in DOMAIN codes_ |-> Ascii(codes_[n])]

SomeMessage == Text(<<66, 111, 111, 116, 101, 100>>)
SomeImages == {Text(<<69, 10, 70>>)}
SomePanicText == Text(<<80, 65>>)
SomeReason == Text(<<80>>)

\* Bound: states after a lost code, an overprinted line or a page fault, of
\* which no more is promised, are checked but not continued.
Promised == ~lost /\ ~overprinted /\ fault = None
=============================================================================
