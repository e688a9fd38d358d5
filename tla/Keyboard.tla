------------------------------ MODULE Keyboard ------------------------------
(***************************************************************************)
(* From the keys to the screen: _keyboard_int (keyboard.c), which turns    *)
(* scan codes into characters, keyboard_int (kernel.c), which puts them    *)
(* into the top row, _start, which writes into the same row and others     *)
(* while the handler may run, after init_mouse may have read some of the   *)
(* scan codes away, and the panic, which writes over all of them.          *)
(***************************************************************************)
EXTENDS Integers, Sequences, Utils

CONSTANTS
  Keys,         \* the scan codes of the keys that are used
  Width, Height, CellWidth,   \* the screen, as in module Console
  Message,      \* what _start prints first
  Results,      \* what run_elf may return, and
  Images,       \* the three bytes of the module that are printed
  PanicText, Reason,      \* what except prints
  ErrorCodes, Addresses,  \* what a page fault comes with
  MaxWaiting,   \* bound: scan codes on their way
  MaxTyped      \* bound: characters in the line the user has typed

LeftCtrl == 29
LeftShift == 42
LeftAlt == 56
Lock == 58
Escape == 1
Backspace == 14
Enter == 28

ASSUME KeysAssumption ==
  /\ Keys \subseteq 0 .. 58
  /\ MaxWaiting \in Nat /\ MaxTyped \in Nat
  /\ {Width, Height, CellWidth} \subseteq Nat \ {0} /\ Height >= 4
  /\ Results \subseteq Nat /\ ErrorCodes \subseteq Nat /\ Addresses \subseteq Nat

Modifiers == {LeftCtrl, LeftShift, LeftAlt, Lock}

Break(key) == key + 128

VARIABLES
  codes,        \* scan codes the keyboard has sent and nobody has read
  isShift, isCtrl, isAlt, isLock,
  xytest,       \* the column of the next character
  screen,       \* what the screen shows
  pc,           \* _start: in init_mouse, printing, in its idle loop
  jobs,         \* _start: the strings it is about to print, as far as they go
  result,       \* _start: what run_elf returned and the module's bytes, or None
  fault,        \* the page fault that has stopped the machine, or None
  \* history, read by guards of the keys and by properties only:
  down,         \* the keys that are held
  capsOn,       \* the lock as the user sees it
  line,         \* the characters the user has typed
  lost,         \* init_mouse has read a scan code
  overprinted   \* _start has printed over what was typed

modifiers == <<isShift, isCtrl, isAlt, isLock>>
console == <<xytest, screen>>
start == <<pc, jobs, result>>
user == <<down, capsOn, line>>
vars == <<codes, modifiers, console, start, fault, user, lost, overprinted>>

\* A character: a key, in the plain table or in the other one, or a code.
Char(key, upper) == [key |-> key, upper |-> upper]
Ascii(code) == [code |-> code]

None == [none |-> TRUE]

\* Escape and enter have the codes 0xFF and 0xFD.
Screen == INSTANCE Console WITH
  Newline <- Ascii(10), Blank <- Char(57, FALSE), Junk <- [junk |-> TRUE],
  Negative <- {Char(k, u) : k \in {Escape, Enter}, u \in BOOLEAN}

Hex(value) ==
  LET digits == uitoa(value, <<>>, 16)
  IN  [n \in DOMAIN digits |-> Ascii(digits[n])]

\* The panic's literals are single lines, no string but the boot message is
\* longer than the screen is wide in pixels, and a row holds a number's digits,
\* which are at most sixteen.
ASSUME TextsAssumption ==
  /\ Images \cup {Message, PanicText, Reason} \subseteq Seq([code : Nat])
  /\ \A text \in Images \cup {PanicText, Reason} : Len(text) <= Screen!fb_width
  /\ \A text \in {PanicText, Reason} : \A n \in DOMAIN text : text[n] # Ascii(10)
  /\ \A v \in Results \cup ErrorCodes \cup Addresses : Len(Hex(v)) <= Width

Init ==
  /\ codes = <<>>
  /\ isShift = FALSE /\ isCtrl = FALSE /\ isAlt = FALSE /\ isLock = FALSE
  /\ xytest = 0 /\ screen = Screen!Empty
  /\ pc = "mouse" /\ jobs = <<>> /\ result = None /\ fault = None
  /\ down = {} /\ capsOn = FALSE /\ line = <<>>
  /\ lost = FALSE /\ overprinted = FALSE

-----------------------------------------------------------------------------
(* The user *)

\* What the line becomes when a key is struck with the modifiers as they are.
Typed(key) ==
  IF key = Backspace
  THEN IF line = <<>> THEN line ELSE SubSeq(line, 1, Len(line) - 1)
  ELSE Append(line, Char(key, (LeftShift \in down) # capsOn))

MayType(key) ==
  /\ Len(codes) < MaxWaiting
  /\ key \in Modifiers \cup {Backspace} \/ Len(line) < MaxTyped

Press(key) ==
  /\ key \notin down /\ MayType(key)
  /\ codes' = Append(codes, key)
  /\ down' = down \cup {key}
  /\ capsOn' = (capsOn # (key = Lock))
  /\ line' = IF key \in Modifiers THEN line ELSE Typed(key)
  /\ UNCHANGED <<modifiers, console, start, fault, lost, overprinted>>

\* A key that is held repeats its code; for modifiers this is left out.
Repeat(key) ==
  /\ key \in down \ Modifiers /\ MayType(key)
  /\ codes' = Append(codes, key)
  /\ line' = Typed(key)
  /\ UNCHANGED <<modifiers, console, start, fault, down, capsOn, lost, overprinted>>

Release(key) ==
  /\ key \in down /\ Len(codes) < MaxWaiting
  /\ codes' = Append(codes, Break(key))
  /\ down' = down \ {key}
  /\ UNCHANGED <<modifiers, console, start, fault, capsOn, line, lost, overprinted>>

-----------------------------------------------------------------------------
(* keyboard_int *)

keyboard_int(key, upper) ==
  IF key # Backspace
  THEN /\ screen' = Screen!printc(screen, xytest, 0, Char(key, upper))
       /\ xytest' = xytest + 1
  ELSE IF xytest > 0
  THEN /\ xytest' = xytest - 1
       /\ screen' = Screen!printc(screen, xytest', 0, Char(57, FALSE))
  ELSE UNCHANGED console

-----------------------------------------------------------------------------
(* _keyboard_int, which reads one scan code *)

Code == Head(codes)

\* Faulty variant: the lock wins over the shift key.
UpperOr == isShift \/ isLock

Upper == isShift # isLock

\* Faulty variant: the shift key's release is not told from others.
SetModifiersSticky ==
  /\ isCtrl' = (Code = LeftCtrl \/ (isCtrl /\ Code # Break(LeftCtrl)))
  /\ isShift' = (Code = LeftShift \/ isShift)
  /\ isAlt' = (Code = LeftAlt \/ (isAlt /\ Code # Break(LeftAlt)))
  /\ isLock' = (isLock # (Code = Lock))

SetModifiers ==
  /\ isCtrl' = (Code = LeftCtrl \/ (isCtrl /\ Code # Break(LeftCtrl)))
  /\ isShift' = (Code = LeftShift \/ (isShift /\ Code # Break(LeftShift)))
  /\ isAlt' = (Code = LeftAlt \/ (isAlt /\ Code # Break(LeftAlt)))
  /\ isLock' = (isLock # (Code = Lock))

\* Faulty variant: releases are looked up in the tables as well.
IgnoredNever == FALSE

\* Codes above the tables give no character.
Ignored == Code > Lock

\* With interrupt_handler's test of the character: those of all keys are below
\* 0x7F, being signed, and 0 stands for none.
_keyboard_int ==
  /\ codes # <<>> /\ fault = None
  /\ codes' = Tail(codes)
  /\ IF Code \in Modifiers \cup {Break(k) : k \in Modifiers \ {Lock}}
     THEN SetModifiers /\ UNCHANGED console
     ELSE /\ UNCHANGED modifiers
          /\ IF Ignored THEN UNCHANGED console ELSE keyboard_int(Code, Upper)
  /\ UNCHANGED <<start, fault, user, lost, overprinted>>

-----------------------------------------------------------------------------
(* _start *)

\* init_mouse's poll reads a scan code before the handler does.
Steal ==
  /\ pc = "mouse" /\ fault = None /\ codes # <<>>
  /\ codes' = Tail(codes) /\ lost' = TRUE
  /\ UNCHANGED <<modifiers, console, start, fault, user, overprinted>>

init_mouse ==
  /\ pc = "mouse" /\ fault = None
  /\ pc' = "print" /\ jobs' = <<Screen!Job(0, 0, Message)>>
  /\ UNCHANGED <<codes, modifiers, console, result, fault, user, lost, overprinted>>

\* One character of a string.
PrintChar ==
  /\ pc = "print" /\ fault = None
  /\ Head(jobs).text # <<>>
  /\ jobs' = [jobs EXCEPT ![1] = Screen!NextJob(@)]
  /\ screen' = Screen!Shown(screen, Head(jobs))
  /\ overprinted' = (overprinted \/
       (screen' # screen /\ Head(jobs).y = 0 /\ Head(jobs).x < xytest))
  /\ UNCHANGED <<codes, modifiers, xytest, pc, result, fault, user, lost>>

\* Behind the boot message run_elf returns, and its result is printed with
\* three bytes of the module.
run_elf ==
  /\ pc = "print" /\ fault = None
  /\ Head(jobs).text = <<>> /\ result = None
  /\ \E r \in Results, image \in Images :
       /\ result' = [number |-> r, image |-> image]
       /\ jobs' = <<Screen!Job(0, 2, Hex(r)), Screen!Job(0, 3, image)>>
  /\ UNCHANGED <<codes, modifiers, console, pc, fault, user, lost, overprinted>>

\* The end of a string, and after the last one the idle loop.
NextString ==
  /\ pc = "print" /\ fault = None
  /\ Head(jobs).text = <<>> /\ result # None
  /\ jobs' = Tail(jobs)
  /\ pc' = IF jobs' = <<>> THEN "idle" ELSE "print"
  /\ UNCHANGED <<codes, modifiers, console, result, fault, user, lost, overprinted>>

\* Faulty variant: the address is printed like the error code, into its row.
PanicRowsSame(code, address) ==
  Screen!prints(Screen!prints(Screen!prints(Screen!prints(
    screen, 0, 2, Hex(code)), 0, 2, Hex(address)), 0, 0, PanicText), 0, 1, Reason)

\* What a page fault prints, in the order of interrupt_handler and except.
PanicRows(code, address) ==
  Screen!prints(Screen!prints(Screen!prints(Screen!prints(
    screen, 0, 2, Hex(code)), 0, 3, Hex(address)), 0, 0, PanicText), 0, 1, Reason)

\* A page fault, in _start or in a process, at any time after install_idt;
\* nothing runs after it.
PageFault(code, address) ==
  /\ fault = None
  /\ fault' = [code |-> code, address |-> address]
  /\ screen' = PanicRows(code, address)
  /\ UNCHANGED <<codes, modifiers, xytest, start, user, lost, overprinted>>

Next ==
  \/ \E key \in Keys : Press(key) \/ Repeat(key) \/ Release(key)
  \/ _keyboard_int
  \/ Steal \/ init_mouse \/ PrintChar \/ run_elf \/ NextString
  \/ \E code \in ErrorCodes, address \in Addresses : PageFault(code, address)

Spec == Init /\ [][Next]_vars

-----------------------------------------------------------------------------
(* Properties *)

\* The variables have their types, and a key on the screen is one of those in
\* the tables of characters.
TypeOK ==
  /\ \A n \in DOMAIN codes : codes[n] \in Keys \cup {Break(k) : k \in Keys}
  /\ {isShift, isCtrl, isAlt, isLock, lost, overprinted, capsOn} \subseteq BOOLEAN
  /\ xytest \in Nat
  /\ DOMAIN screen = Screen!Rows
  /\ \A y \in Screen!Rows :
       /\ DOMAIN screen[y] = Screen!Columns
       /\ \A x \in Screen!Columns :
            "key" \in DOMAIN screen[y][x] => screen[y][x].key \in 0 .. Lock
  /\ pc \in {"mouse", "print", "idle"} /\ Len(jobs) <= 2
  /\ down \subseteq Keys

\* When all scan codes have been read, the top row begins with what the user
\* typed, in the case the modifiers had when the key was struck, however late
\* the handler read it, and the next character goes behind it - unless a code
\* was lost to init_mouse, _start printed over the line or the kernel stopped.
\* Escape and enter are typed like letters, and show as junk.
TypedIsShown ==
  codes = <<>> /\ ~lost /\ ~overprinted /\ fault = None =>
    /\ xytest = Len(line)
    /\ \A n \in DOMAIN line :
         n <= Width => screen[0][n - 1] = Screen!Glyph(line[n])

\* When all scan codes have been read, the driver's modifiers are those the
\* user holds, unless a code was lost.
ModifiersAreHeld ==
  codes = <<>> /\ ~lost =>
    /\ isShift = (LeftShift \in down) /\ isCtrl = (LeftCtrl \in down)
    /\ isAlt = (LeftAlt \in down) /\ isLock = capsOn

\* A row begins with digits that denote the number.
Reads(row, number) ==
  \E n \in 1 .. Width :
    /\ \A k \in 0 .. (n - 1) : "code" \in DOMAIN row[k]
    /\ Denoted([k \in 1 .. n |-> row[k - 1].code], 16) = number

\* Once _start has printed everything, the screen shows run_elf's result and
\* the module's bytes in their rows, line by line, whatever was typed before,
\* between or after.
PrintedStays ==
  pc = "idle" /\ fault = None =>
    /\ Reads(screen[2], result.number)
    /\ Screen!InPlace(screen, 0, 3, result.image)

\* A page fault at any time leaves a screen from which its error code and its
\* address can be read, below the message and the reason.
PanicIsShown ==
  fault # None =>
    /\ Reads(screen[2], fault.code) /\ Reads(screen[3], fault.address)
    /\ Screen!InPlace(screen, 0, 0, PanicText) /\ Screen!InPlace(screen, 0, 1, Reason)
=============================================================================
