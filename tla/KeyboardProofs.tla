--------------------------- MODULE KeyboardProofs ---------------------------
(***************************************************************************)
(* What holds of the keyboard driver, of the line and of what _start       *)
(* prints, for every set of keys, any number of scan codes on their way    *)
(* and a screen of any size.                                               *)
(*                                                                         *)
(* Once the driver has read all the codes, its modifiers are those the     *)
(* user holds, and the row shows the line the user typed.  Neither is      *)
(* inductive: while codes are on their way the driver is behind the user.  *)
(* The strengthening is a history that leads from where the driver is to   *)
(* where the user is, one code after the other: the modifiers and the line *)
(* after each.  A key that is struck adds to its end, the handler takes    *)
(* its beginning away.                                                     *)
(*                                                                         *)
(* uitoa writes digits that denote its number.  What the loop leaves is    *)
(* defined by recursion over the number, so this goes by the least number  *)
(* for which it fails.                                                     *)
(*                                                                         *)
(* What _start has printed stays in its rows, however the printing and the *)
(* typing interleave, and a page fault shows its code and its address.     *)
(* Here the strengthening says how much of each string is on the screen    *)
(* and that the rest of it is what is still to be printed.                 *)
(***************************************************************************)
EXTENDS Keyboard, TLAPS, WellFoundedInduction, FiniteSetTheorems

ScanCodes == Keys \cup {Break(k) : k \in Keys}

Characters == [key : 0 .. 58, upper : BOOLEAN]

TypeInv ==
  /\ codes \in Seq(ScanCodes)
  /\ isShift \in BOOLEAN /\ isCtrl \in BOOLEAN /\ isAlt \in BOOLEAN /\ isLock \in BOOLEAN
  /\ capsOn \in BOOLEAN /\ lost \in BOOLEAN /\ overprinted \in BOOLEAN
  /\ xytest \in Nat
  /\ down \subseteq Keys
  /\ line \in Seq(Characters)

\* Keys and codes are numbers below 256, and a code above the tables is a
\* key's release.
LEMMA Numbers ==
  /\ \A k \in Keys : k \in 0 .. 58
  /\ \A c \in ScanCodes : c \in 0 .. 186
BY KeysAssumption DEF ScanCodes, Break

\* What typing makes of a line.
LEMMA TypedType ==
  ASSUME TypeInv, NEW key \in Keys
  PROVE  Typed(key) \in Seq(Characters)
<1>1. ((LeftShift \in down) # capsOn) \in BOOLEAN
  OBVIOUS
<1>2. Char(key, (LeftShift \in down) # capsOn) \in Characters
  BY <1>1, Numbers DEF Char, Characters
<1>3. line # <<>> => SubSeq(line, 1, Len(line) - 1) \in Seq(Characters)
  BY DEF TypeInv
<1> QED
  BY <1>2, <1>3 DEF Typed, TypeInv

\* Every step keeps the types that the arguments below need.
LEMMA TypeStep == TypeInv /\ [Next]_vars => TypeInv'
<1> SUFFICES ASSUME TypeInv, [Next]_vars PROVE TypeInv'
  OBVIOUS
<1>1. ASSUME NEW key \in Keys, Press(key) PROVE TypeInv'
  <2>1. codes' \in Seq(ScanCodes)
    BY <1>1 DEF Press, TypeInv, ScanCodes
  <2>2. down' \subseteq Keys /\ line' \in Seq(Characters)
    BY <1>1, TypedType DEF Press, TypeInv
  <2>3. capsOn' \in BOOLEAN
    BY <1>1 DEF Press
  <2> QED
    BY <1>1, <2>1, <2>2, <2>3 DEF Press, TypeInv, modifiers, console
<1>2. ASSUME NEW key \in Keys, Repeat(key) PROVE TypeInv'
  <2>1. codes' \in Seq(ScanCodes) /\ line' \in Seq(Characters)
    BY <1>2, TypedType DEF Repeat, TypeInv, ScanCodes
  <2> QED
    BY <1>2, <2>1 DEF Repeat, TypeInv, modifiers, console
<1>3. ASSUME NEW key \in Keys, Release(key) PROVE TypeInv'
  <2>1. codes' \in Seq(ScanCodes) /\ down' \subseteq Keys
    BY <1>3 DEF Release, TypeInv, ScanCodes
  <2> QED
    BY <1>3, <2>1 DEF Release, TypeInv, modifiers, console
<1>4. CASE _keyboard_int
  <2>1. codes' \in Seq(ScanCodes)
    BY <1>4 DEF _keyboard_int, TypeInv
  <2>2. isShift' \in BOOLEAN /\ isCtrl' \in BOOLEAN /\ isAlt' \in BOOLEAN /\ isLock' \in BOOLEAN
    BY <1>4 DEF _keyboard_int, SetModifiers, modifiers, TypeInv
  <2>3. xytest' = xytest \/ xytest' = xytest + 1 \/ (xytest > 0 /\ xytest' = xytest - 1)
    BY <1>4 DEF _keyboard_int, keyboard_int, console
  <2>4. xytest' \in Nat
    BY <2>3 DEF TypeInv
  <2> QED
    BY <1>4, <2>1, <2>2, <2>4 DEF _keyboard_int, TypeInv, user
<1>5. CASE Steal
  <2>1. codes' \in Seq(ScanCodes) /\ lost' \in BOOLEAN
    BY <1>5 DEF Steal, TypeInv
  <2> QED
    BY <1>5, <2>1 DEF Steal, TypeInv, modifiers, console, user
<1>6. CASE PrintChar
  <2>1. overprinted' \in BOOLEAN
    BY <1>6 DEF PrintChar
  <2> QED
    BY <1>6, <2>1 DEF PrintChar, TypeInv, modifiers, user
<1>7. CASE init_mouse \/ run_elf \/ NextString
  BY <1>7 DEF init_mouse, run_elf, NextString, TypeInv, modifiers, console, user
<1>8. ASSUME NEW code \in ErrorCodes, NEW address \in Addresses, PageFault(code, address)
      PROVE  TypeInv'
  BY <1>8 DEF PageFault, TypeInv, modifiers, user
<1>9. CASE UNCHANGED vars
  BY <1>9 DEF vars, TypeInv, modifiers, console, user
<1> QED
  BY <1>1, <1>2, <1>3, <1>4, <1>5, <1>6, <1>7, <1>8, <1>9 DEF Next

\* They hold at first.
LEMMA TypeInit == Init => TypeInv
<1> SUFFICES ASSUME Init PROVE TypeInv
  OBVIOUS
<1>1. /\ isShift \in BOOLEAN /\ isCtrl \in BOOLEAN /\ isAlt \in BOOLEAN /\ isLock \in BOOLEAN
      /\ capsOn \in BOOLEAN /\ lost \in BOOLEAN /\ overprinted \in BOOLEAN
  BY Zenon DEF Init
<1>2. /\ codes \in Seq(ScanCodes) /\ line \in Seq(Characters)
      /\ xytest \in Nat /\ down \subseteq Keys
  BY DEF Init
<1> QED
  BY <1>1, <1>2 DEF TypeInv

-----------------------------------------------------------------------------
(* Modifiers *)

\* The modifiers that are on, for the driver and for the user.
DriverHas(k) ==
  \/ k = LeftShift /\ isShift
  \/ k = LeftCtrl /\ isCtrl
  \/ k = LeftAlt /\ isAlt
  \/ k = Lock /\ isLock

DriverMods == {k \in Modifiers : DriverHas(k)}

UserMods == {k \in Modifiers : IF k = Lock THEN capsOn ELSE k \in down}

\* What a scan code makes of them.
Turned(m, code) ==
  {k \in Modifiers :
     IF k = Lock THEN (k \in m /\ code # k) \/ (k \notin m /\ code = k)
     ELSE code = k \/ (k \in m /\ code # Break(k))}

\* The codes on their way lead from the driver's modifiers to the user's.
Leads(m) ==
  /\ m[0] = DriverMods
  /\ m[Len(codes)] = UserMods
  /\ \A i \in 1 .. Len(codes) : m[i] = Turned(m[i - 1], codes[i])

Histories(S) == [0 .. Len(codes) -> S]

ModifiersInv == ~lost => \E m \in Histories(SUBSET Modifiers) : Leads(m)

\* The handler does to the driver's modifiers what its code says.
LEMMA DriverTurns ==
  ASSUME TypeInv, _keyboard_int
  PROVE  DriverMods' = Turned(DriverMods, Code)
<1>1. CASE Code \in Modifiers \cup {Break(k) : k \in Modifiers \ {Lock}}
  <2>1. /\ isShift' <=> (Code = LeftShift \/ (isShift /\ Code # Break(LeftShift)))
        /\ isCtrl' <=> (Code = LeftCtrl \/ (isCtrl /\ Code # Break(LeftCtrl)))
        /\ isAlt' <=> (Code = LeftAlt \/ (isAlt /\ Code # Break(LeftAlt)))
        /\ isLock' <=> (isLock # (Code = Lock))
    BY <1>1 DEF _keyboard_int, SetModifiers
  <2>2. (isLock # (Code = Lock)) <=> ((isLock /\ Code # Lock) \/ (~isLock /\ Code = Lock))
    BY DEF TypeInv
  <2>3. ASSUME NEW k \in Modifiers
        PROVE  DriverHas(k)' <=> k \in Turned(DriverMods, Code)
    BY <2>1, <2>2 DEF DriverHas, DriverMods, Turned, Modifiers, LeftShift, LeftCtrl, LeftAlt, Lock
  <2> QED
    BY <2>3 DEF DriverMods, Turned
<1>2. CASE Code \notin Modifiers \cup {Break(k) : k \in Modifiers \ {Lock}}
  <2>1. UNCHANGED modifiers
    BY <1>2 DEF _keyboard_int
  <2>2. DriverMods' = DriverMods
    BY <2>1 DEF DriverMods, DriverHas, modifiers
  <2>3. \A k \in Modifiers : Code # k /\ (k # Lock => Code # Break(k))
    BY <1>2
  <2>4. Turned(DriverMods, Code) = DriverMods
    BY <2>3 DEF Turned, DriverMods
  <2> QED
    BY <2>2, <2>4
<1> QED
  BY <1>1, <1>2

\* A key that the user strikes, holds or releases sends a code that says what
\* it does to the modifiers.
LEMMA UserTurns ==
  ASSUME TypeInv, NEW key \in Keys
  PROVE  /\ Press(key) => UserMods' = Turned(UserMods, key)
         /\ Repeat(key) => UserMods' = Turned(UserMods, key)
         /\ Release(key) => UserMods' = Turned(UserMods, Break(key))
<1>1. key \in 0 .. 58 /\ Lock = 58 /\ Break(key) = key + 128
  BY Numbers DEF Lock, Break
<1>2. \A k \in Modifiers : k \in {29, 42, 56, 58} /\ Break(k) = k + 128
  BY DEF Modifiers, LeftShift, LeftCtrl, LeftAlt, Lock, Break
<1>3. ASSUME Press(key) PROVE UserMods' = Turned(UserMods, key)
  <2>1. down' = down \cup {key}
    BY <1>3 DEF Press
  <2>2. capsOn' <=> ((capsOn /\ key # Lock) \/ (~capsOn /\ key = Lock))
    BY <1>3 DEF Press, TypeInv
  <2>3. ASSUME NEW k \in Modifiers
        PROVE  (IF k = Lock THEN capsOn' ELSE k \in down') <=> k \in Turned(UserMods, key)
    BY <1>1, <1>2, <2>1, <2>2 DEF UserMods, Turned
  <2> QED
    BY <2>3 DEF UserMods, Turned
<1>4. ASSUME Repeat(key) PROVE UserMods' = Turned(UserMods, key)
  <2>1. UserMods' = UserMods
    BY <1>4 DEF Repeat, UserMods
  <2>2. key \notin Modifiers
    BY <1>4 DEF Repeat
  <2>3. \A k \in Modifiers : key # k /\ key # Break(k)
    BY <1>1, <1>2, <2>2
  <2>4. Turned(UserMods, key) = UserMods
    BY <2>3 DEF Turned, UserMods
  <2> QED
    BY <2>1, <2>4
<1>5. ASSUME Release(key) PROVE UserMods' = Turned(UserMods, Break(key))
  <2>1. down' = down \ {key} /\ capsOn' = capsOn
    BY <1>5 DEF Release
  <2>2. ASSUME NEW k \in Modifiers
        PROVE  (IF k = Lock THEN capsOn ELSE k \in down \ {key}) <=> k \in Turned(UserMods, Break(key))
    BY <1>1, <1>2 DEF UserMods, Turned
  <2> QED
    BY <2>1, <2>2 DEF UserMods, Turned
<1> QED
  BY <1>3, <1>4, <1>5

\* A history grows at its end: code takes it on to what it makes of the last.
Grown(h, n, last) == [i \in 0 .. (n + 1) |-> IF i = n + 1 THEN last ELSE h[i]]

\* A history that has grown fits the codes that have grown.
LEMMA GrownHistory ==
  ASSUME TypeInv, NEW S, NEW h \in Histories(S), NEW n \in Nat, n = Len(codes), NEW last \in S,
         NEW code \in ScanCodes, codes' = Append(codes, code)
  PROVE  /\ Len(codes') = n + 1
         /\ \A i \in 1 .. n : codes'[i] = codes[i]
         /\ codes'[n + 1] = code
         /\ Grown(h, n, last) \in Histories(S)'
         /\ \A i \in 0 .. n : Grown(h, n, last)[i] = h[i]
         /\ Grown(h, n, last)[n + 1] = last
<1>1. /\ Len(codes') = n + 1
      /\ \A i \in 1 .. n : codes'[i] = codes[i]
      /\ codes'[n + 1] = code
  BY DEF TypeInv
<1>2. h \in [0 .. n -> S]
  BY DEF Histories
<1>3. Grown(h, n, last) \in [0 .. (n + 1) -> S]
  BY <1>2 DEF Grown
<1> QED
  BY <1>1, <1>2, <1>3 DEF Grown, Histories

\* It shrinks at its beginning, when the driver has read the first code.
Shrunk(h, n) == [i \in 0 .. (n - 1) |-> h[i + 1]]

\* A history that has shrunk fits what is left of the codes.
LEMMA ShrunkHistory ==
  ASSUME TypeInv, NEW S, NEW h \in Histories(S), NEW n \in Nat, n = Len(codes),
         codes # <<>>, codes' = Tail(codes)
  PROVE  /\ n > 0 /\ Len(codes') = n - 1 /\ Code = codes[1]
         /\ \A i \in 1 .. (n - 1) : codes'[i] = codes[i + 1]
         /\ Shrunk(h, n) \in Histories(S)'
         /\ \A i \in 0 .. (n - 1) : Shrunk(h, n)[i] = h[i + 1]
<1>1. /\ n > 0 /\ Len(codes') = n - 1 /\ Code = codes[1]
      /\ \A i \in 1 .. (n - 1) : codes'[i] = codes[i + 1]
  BY DEF TypeInv, Code
<1>2. h \in [0 .. n -> S]
  BY DEF Histories
<1>3. Shrunk(h, n) \in [0 .. (n - 1) -> S]
  BY <1>1, <1>2 DEF Shrunk
<1> QED
  BY <1>1, <1>3 DEF Shrunk, Histories

\* The user's next code continues the history of the modifiers.
LEMMA LeadsFurther ==
  ASSUME TypeInv, NEW m \in Histories(SUBSET Modifiers), Leads(m),
         NEW n \in Nat, n = Len(codes),
         NEW code \in ScanCodes, codes' = Append(codes, code),
         NEW u, u = UserMods', u = Turned(UserMods, code),
         DriverMods' = DriverMods
  PROVE  /\ Grown(m, n, u) \in Histories(SUBSET Modifiers)'
         /\ Leads(Grown(m, n, u))'
<1>1. u \in SUBSET Modifiers
  BY DEF Turned
<1>2. /\ Len(codes') = n + 1
      /\ \A i \in 1 .. n : codes'[i] = codes[i]
      /\ codes'[n + 1] = code
      /\ Grown(m, n, u) \in Histories(SUBSET Modifiers)'
      /\ \A i \in 0 .. n : Grown(m, n, u)[i] = m[i]
      /\ Grown(m, n, u)[n + 1] = u
  BY <1>1, GrownHistory
<1>3. Grown(m, n, u)[0] = DriverMods' /\ Grown(m, n, u)[Len(codes')] = UserMods'
  BY <1>2 DEF Leads
<1>4. ASSUME NEW i \in 1 .. Len(codes')
      PROVE  Grown(m, n, u)[i] = Turned(Grown(m, n, u)[i - 1], codes'[i])
  <2>1. CASE i = n + 1
    BY <1>2, <2>1 DEF Leads
  <2>2. CASE i # n + 1
    <3>1. i \in 1 .. n /\ i - 1 \in 0 .. n /\ i \in 0 .. n
      BY <1>2, <2>2
    <3> QED
      BY <1>2, <3>1 DEF Leads
  <2> QED
    BY <2>1, <2>2
<1> QED
  BY <1>2, <1>3, <1>4 DEF Leads

\* The driver's next code takes the beginning of it.
LEMMA LeadsOn ==
  ASSUME TypeInv, NEW m \in Histories(SUBSET Modifiers), Leads(m),
         NEW n \in Nat, n = Len(codes), _keyboard_int
  PROVE  /\ Shrunk(m, n) \in Histories(SUBSET Modifiers)'
         /\ Leads(Shrunk(m, n))'
<1>1. codes # <<>> /\ codes' = Tail(codes)
  BY DEF _keyboard_int
<1>2. /\ n > 0 /\ Len(codes') = n - 1 /\ Code = codes[1]
      /\ \A i \in 1 .. (n - 1) : codes'[i] = codes[i + 1]
      /\ Shrunk(m, n) \in Histories(SUBSET Modifiers)'
      /\ \A i \in 0 .. (n - 1) : Shrunk(m, n)[i] = m[i + 1]
  BY <1>1, ShrunkHistory
<1>3. UserMods' = UserMods
  BY DEF _keyboard_int, UserMods, user
<1>4. DriverMods' = Turned(DriverMods, Code)
  BY DriverTurns
<1>5. Shrunk(m, n)[0] = DriverMods'
  BY <1>2, <1>4 DEF Leads
<1>6. Shrunk(m, n)[Len(codes')] = UserMods'
  BY <1>2, <1>3 DEF Leads
<1>7. ASSUME NEW i \in 1 .. Len(codes')
      PROVE  Shrunk(m, n)[i] = Turned(Shrunk(m, n)[i - 1], codes'[i])
  <2>1. i \in 1 .. (n - 1) /\ i - 1 \in 0 .. (n - 1) /\ i \in 0 .. (n - 1) /\ i + 1 \in 1 .. n
    BY <1>2
  <2>2. m[i + 1] = Turned(m[i + 1 - 1], codes[i + 1])
    BY <2>1 DEF Leads
  <2>3. i + 1 - 1 = i /\ i - 1 + 1 = i
    OBVIOUS
  <2> QED
    BY <1>2, <2>1, <2>2, <2>3
<1> QED
  BY <1>2, <1>5, <1>6, <1>7 DEF Leads

\* What leaves the codes, the driver and the user alone leaves the history.
LEMMA LeadsStill ==
  ASSUME NEW m \in Histories(SUBSET Modifiers), Leads(m),
         UNCHANGED <<codes, modifiers, user>>
  PROVE  m \in Histories(SUBSET Modifiers)' /\ Leads(m)'
BY DEF Leads, Histories, DriverMods, DriverHas, UserMods, modifiers, user

\* The steps of the user send one code each, and leave the driver alone.
LEMMA UserSteps ==
  ASSUME TypeInv, NEW key \in Keys, Press(key) \/ Repeat(key) \/ Release(key)
  PROVE  \E code \in ScanCodes :
           /\ codes' = Append(codes, code)
           /\ UserMods' = Turned(UserMods, code)
           /\ DriverMods' = DriverMods
           /\ UNCHANGED <<modifiers, console, lost, overprinted, fault>>
           /\ Press(key) \/ Repeat(key) => code = key
           /\ Release(key) => code = Break(key)
<1>1. key \in ScanCodes /\ Break(key) \in ScanCodes
  BY DEF ScanCodes
<1>2. UNCHANGED <<modifiers, console, lost, overprinted, fault>>
  BY DEF Press, Repeat, Release
<1>3. DriverMods' = DriverMods
  BY <1>2 DEF DriverMods, DriverHas, modifiers
<1>4. ~ (Release(key) /\ (Press(key) \/ Repeat(key)))
  <2>1. ASSUME Release(key), Press(key) \/ Repeat(key) PROVE FALSE
    <3>1. codes' = Append(codes, Break(key)) /\ codes' = Append(codes, key)
      BY <2>1 DEF Release, Press, Repeat
    <3>2. Append(codes, Break(key))[Len(codes) + 1] = Break(key)
      BY DEF TypeInv
    <3>3. Append(codes, key)[Len(codes) + 1] = key
      BY DEF TypeInv
    <3>4. key = Break(key)
      BY <3>1, <3>2, <3>3
    <3>5. key \in 0 .. 58 /\ Break(key) = key + 128
      BY Numbers DEF Break
    <3> QED
      BY <3>4, <3>5
  <2> QED
    BY <2>1
<1>5. CASE Press(key) \/ Repeat(key)
  <2>1. codes' = Append(codes, key) /\ UserMods' = Turned(UserMods, key)
    BY <1>5, UserTurns DEF Press, Repeat
  <2> QED
    BY <1>1, <1>2, <1>3, <1>4, <1>5, <2>1
<1>6. CASE Release(key)
  <2>1. codes' = Append(codes, Break(key)) /\ UserMods' = Turned(UserMods, Break(key))
    BY <1>6, UserTurns DEF Release
  <2> QED
    BY <1>1, <1>2, <1>3, <1>4, <1>6, <2>1
<1> QED
  BY <1>5, <1>6

\* The steps of _start and of the panic, other than Steal, do neither.
LEMMA OtherSteps ==
  ASSUME init_mouse \/ PrintChar \/ run_elf \/ NextString
           \/ (\E code \in ErrorCodes, address \in Addresses : PageFault(code, address))
           \/ UNCHANGED vars
  PROVE  UNCHANGED <<codes, modifiers, user, lost>>
BY DEF init_mouse, PrintChar, run_elf, NextString, PageFault, vars

\* At first nothing is on its way and no modifier is on.
LEMMA ModifiersInit == Init => ModifiersInv
<1> SUFFICES ASSUME Init PROVE \E m \in Histories(SUBSET Modifiers) : Leads(m)
  BY DEF ModifiersInv
<1>1. Len(codes) = 0
  BY DEF Init
<1>2. DriverMods = {} /\ UserMods = {}
  BY DEF Init, DriverMods, DriverHas, UserMods
<1>3. PICK m : m = [i \in 0 .. 0 |-> {}]
  OBVIOUS
<1>4. m \in Histories(SUBSET Modifiers)
  BY <1>1, <1>3 DEF Histories
<1>5. Leads(m)
  BY <1>1, <1>2, <1>3 DEF Leads
<1> QED
  BY <1>4, <1>5

\* Every step keeps a history of the modifiers.
LEMMA ModifiersStep == TypeInv /\ ModifiersInv /\ [Next]_vars => ModifiersInv'
<1> SUFFICES ASSUME TypeInv, ModifiersInv, [Next]_vars, ~lost'
             PROVE  \E m \in Histories(SUBSET Modifiers)' : Leads(m)'
  BY DEF ModifiersInv
<1>n. PICK n \in Nat : n = Len(codes)
  BY DEF TypeInv
<1>m. ASSUME ~lost PROVE \E m \in Histories(SUBSET Modifiers) : Leads(m)
  BY <1>m DEF ModifiersInv
<1>1. ASSUME NEW key \in Keys, Press(key) \/ Repeat(key) \/ Release(key)
      PROVE  \E m \in Histories(SUBSET Modifiers)' : Leads(m)'
  <2>1. PICK code \in ScanCodes :
          /\ codes' = Append(codes, code)
          /\ UserMods' = Turned(UserMods, code)
          /\ DriverMods' = DriverMods
          /\ lost' = lost
    BY <1>1, UserSteps
  <2>2. PICK m \in Histories(SUBSET Modifiers) : Leads(m)
    BY <1>m, <2>1
  <2>3. PICK u : u = UserMods'
    OBVIOUS
  <2> QED
    BY <1>n, <2>1, <2>2, <2>3, LeadsFurther
<1>2. CASE _keyboard_int
  <2>1. lost' = lost
    BY <1>2 DEF _keyboard_int
  <2>2. PICK m \in Histories(SUBSET Modifiers) : Leads(m)
    BY <1>m, <2>1
  <2> QED
    BY <1>n, <1>2, <2>2, LeadsOn
<1>3. CASE Steal
  BY <1>3 DEF Steal
<1>4. CASE \/ init_mouse \/ PrintChar \/ run_elf \/ NextString
           \/ \E code \in ErrorCodes, address \in Addresses : PageFault(code, address)
           \/ UNCHANGED vars
  <2>1. UNCHANGED <<codes, modifiers, user, lost>>
    BY <1>4, OtherSteps
  <2>2. PICK m \in Histories(SUBSET Modifiers) : Leads(m)
    BY <1>m, <2>1
  <2> QED
    BY <2>1, <2>2, LeadsStill
<1> QED
  BY <1>1, <1>2, <1>3, <1>4 DEF Next

\* Once the driver has read every scan code, its modifiers are those the user
\* holds, unless init_mouse read one.
THEOREM ModifiersAreHeldCorrect == Spec => []ModifiersAreHeld
<1>1. TypeInv /\ ModifiersInv => ModifiersAreHeld
  <2> SUFFICES ASSUME TypeInv, ModifiersInv, codes = <<>>, ~lost
               PROVE  /\ isShift = (LeftShift \in down) /\ isCtrl = (LeftCtrl \in down)
                      /\ isAlt = (LeftAlt \in down) /\ isLock = capsOn
    BY DEF ModifiersAreHeld
  <2>1. DriverMods = UserMods
    BY DEF ModifiersInv, Leads
  <2>2. \A k \in Modifiers : DriverHas(k) <=> (IF k = Lock THEN capsOn ELSE k \in down)
    BY <2>1 DEF DriverMods, UserMods
  <2>3. /\ isShift <=> LeftShift \in down
        /\ isCtrl <=> LeftCtrl \in down
        /\ isAlt <=> LeftAlt \in down
        /\ isLock <=> capsOn
    BY <2>2 DEF Modifiers, DriverHas, LeftShift, LeftCtrl, LeftAlt, Lock
  <2>4. isShift \in BOOLEAN /\ isCtrl \in BOOLEAN /\ isAlt \in BOOLEAN /\ isLock \in BOOLEAN
        /\ capsOn \in BOOLEAN
    BY DEF TypeInv
  <2>5. isShift = (LeftShift \in down) /\ isCtrl = (LeftCtrl \in down)
    BY <2>3, <2>4
  <2>6. isAlt = (LeftAlt \in down) /\ isLock = capsOn
    BY <2>3, <2>4
  <2> QED
    BY <2>5, <2>6
<1>2. TypeInv /\ ModifiersInv /\ [Next]_vars => TypeInv' /\ ModifiersInv'
  BY TypeStep, ModifiersStep
<1> QED
  BY <1>1, <1>2, TypeInit, ModifiersInit, PTL DEF Spec

-----------------------------------------------------------------------------
(* The line *)

\* What a code makes of a line, with the modifiers as they are.
Struck(l, m, code) ==
  IF code \in Modifiers \/ code > Lock THEN l
  ELSE IF code # Backspace
  THEN Append(l, Char(code, (LeftShift \in m) # (Lock \in m)))
  ELSE IF l = <<>> THEN l ELSE SubSeq(l, 1, Len(l) - 1)

\* The top row begins with a line and the next character goes behind it.
Shows(l) ==
  /\ xytest = Len(l)
  /\ \A n \in 1 .. Len(l) : n <= Width => screen[0][n - 1] = Screen!Glyph(l[n])

\* The codes on their way lead from a line that the screen shows to the one
\* the user has typed.
Writes(m, l) ==
  /\ Shows(l[0])
  /\ l[Len(codes)] = line
  /\ \A i \in 1 .. Len(codes) : l[i] = Struck(l[i - 1], m[i - 1], codes[i])

Tidy == ~lost /\ ~overprinted /\ fault = None

LineInv ==
  Tidy => \E m \in Histories(SUBSET Modifiers), l \in Histories(Seq(Characters)) :
            Leads(m) /\ Writes(m, l)

\* Striking a key keeps a line a line.
LEMMA StruckType ==
  ASSUME NEW l \in Seq(Characters), NEW m, NEW code \in ScanCodes
  PROVE  Struck(l, m, code) \in Seq(Characters)
<1>1. code \in 0 .. 186
  BY Numbers
<1>2. CASE code \in Modifiers \/ code > Lock
  BY <1>2 DEF Struck
<1>3. CASE ~(code \in Modifiers \/ code > Lock) /\ code # Backspace
  <2>1. code \in 0 .. 58
    BY <1>1, <1>3 DEF Lock
  <2>2. ((LeftShift \in m) # (Lock \in m)) \in BOOLEAN
    OBVIOUS
  <2>3. Char(code, (LeftShift \in m) # (Lock \in m)) \in Characters
    BY <2>1, <2>2 DEF Char, Characters
  <2> QED
    BY <1>3, <2>3 DEF Struck
<1>4. CASE ~(code \in Modifiers \/ code > Lock) /\ code = Backspace
  <2>1. l # <<>> => SubSeq(l, 1, Len(l) - 1) \in Seq(Characters)
    OBVIOUS
  <2> QED
    BY <1>4, <2>1 DEF Struck
<1> QED
  BY <1>2, <1>3, <1>4

\* A key that the user strikes, holds or releases sends a code that says what
\* it does to the line.
LEMMA UserStrikes ==
  ASSUME TypeInv, NEW key \in Keys
  PROVE  /\ Press(key) \/ Repeat(key) => line' = Struck(line, UserMods, key)
         /\ Release(key) => line' = Struck(line, UserMods, Break(key))
<1>1. key \in 0 .. 58 /\ Lock = 58 /\ Break(key) = key + 128
  BY Numbers DEF Lock, Break
<1>2. Lock \in Modifiers /\ LeftShift \in Modifiers /\ LeftShift # Lock
  BY DEF Modifiers, Lock, LeftShift
<1>3. capsOn <=> Lock \in UserMods
  BY <1>2 DEF UserMods
<1>4. capsOn = (Lock \in UserMods)
  BY <1>3 DEF TypeInv
<1>5. (LeftShift \in down) = (LeftShift \in UserMods)
  BY <1>2 DEF UserMods
<1>6. ((LeftShift \in down) # capsOn) = ((LeftShift \in UserMods) # (Lock \in UserMods))
  BY <1>4, <1>5
<1>7. key \notin Modifiers => Struck(line, UserMods, key) = Typed(key)
  BY <1>1, <1>6 DEF Struck, Typed
<1>8. key \in Modifiers => Struck(line, UserMods, key) = line
  BY DEF Struck
<1>9. Struck(line, UserMods, Break(key)) = line
  BY <1>1 DEF Struck
<1>10. Press(key) => line' = Struck(line, UserMods, key)
  BY <1>7, <1>8 DEF Press
<1>11. Repeat(key) => line' = Struck(line, UserMods, key)
  BY <1>7 DEF Repeat
<1>12. Release(key) => line' = Struck(line, UserMods, Break(key))
  BY <1>9 DEF Release
<1> QED
  BY <1>10, <1>11, <1>12

\* printc puts a character into its cell of the top row and leaves the others.
LEMMA TopRow ==
  ASSUME NEW c \in 0 .. (Width - 1), NEW x, NEW ch
  PROVE  Screen!printc(screen, x, 0, ch)[0][c] =
           IF c = x THEN Screen!Glyph(ch) ELSE screen[0][c]
<1>1. 0 \in 0 .. (Height - 1)
  BY KeysAssumption
<1> QED
  BY <1>1 DEF Screen!printc, Screen!Rows, Screen!Columns

\* The handler does to the row what the code it reads does to the line.
LEMMA HandlerShows ==
  ASSUME TypeInv, _keyboard_int, Code \in ScanCodes,
         NEW l \in Seq(Characters), Shows(l),
         NEW next, next = Struck(l, DriverMods, Code)
  PROVE  Shows(next)'
<1>1. Code \in 0 .. 186
  BY Numbers
<1>2. Lock = 58 /\ Backspace = 14 /\ Width \in Nat \ {0}
  BY KeysAssumption DEF Lock, Backspace
<1>3. /\ xytest = Len(l)
      /\ \A n \in 1 .. Len(l) : n <= Width => screen[0][n - 1] = Screen!Glyph(l[n])
  BY DEF Shows
<1>4. CASE Code \in Modifiers \/ Code > Lock
  <2>1. UNCHANGED console
    BY <1>4 DEF _keyboard_int, Ignored
  <2>2. next = l
    BY <1>4 DEF Struck
  <2> QED
    BY <2>1, <2>2 DEF Shows, console
<1>5. CASE ~(Code \in Modifiers \/ Code > Lock)
  <2>1. \A k \in Modifiers \ {Lock} : Code # Break(k)
    BY <1>1, <1>2, <1>5 DEF Modifiers, Break, LeftShift, LeftCtrl, LeftAlt
  <2>2. keyboard_int(Code, Upper)
    BY <1>5, <2>1 DEF _keyboard_int, Ignored
  <2>3. CASE Code # Backspace
    <3>1. Upper = ((LeftShift \in DriverMods) # (Lock \in DriverMods))
      <4>1. (LeftShift \in DriverMods <=> isShift) /\ (Lock \in DriverMods <=> isLock)
        BY DEF DriverMods, DriverHas, Modifiers, LeftShift, LeftCtrl, LeftAlt, Lock
      <4>2. (LeftShift \in DriverMods) = isShift
        BY <4>1 DEF TypeInv
      <4>3. (Lock \in DriverMods) = isLock
        BY <4>1 DEF TypeInv
      <4> QED
        BY <4>2, <4>3 DEF Upper
    <3>2. next = Append(l, Char(Code, Upper))
      BY <1>5, <2>3, <3>1 DEF Struck
    <3>3. /\ screen' = Screen!printc(screen, xytest, 0, Char(Code, Upper))
          /\ xytest' = xytest + 1
      BY <2>2, <2>3 DEF keyboard_int
    <3>4. /\ Len(next) = Len(l) + 1
          /\ next[Len(l) + 1] = Char(Code, Upper)
          /\ \A n \in 1 .. Len(l) : next[n] = l[n]
      BY <3>2
    <3>5. ASSUME NEW n \in 1 .. Len(next), n <= Width
          PROVE  screen'[0][n - 1] = Screen!Glyph(next[n])
      <4>1. n - 1 \in 0 .. (Width - 1)
        BY <1>2, <3>4, <3>5
      <4>2. screen'[0][n - 1] =
              IF n - 1 = xytest THEN Screen!Glyph(Char(Code, Upper)) ELSE screen[0][n - 1]
        BY <3>3, <4>1, TopRow
      <4>3. CASE n = Len(l) + 1
        BY <1>3, <3>4, <4>2, <4>3
      <4>4. CASE n # Len(l) + 1
        <5>1. n \in 1 .. Len(l) /\ n - 1 # xytest
          BY <1>3, <3>4, <4>4
        <5> QED
          BY <1>3, <3>4, <3>5, <4>2, <5>1
      <4> QED
        BY <4>3, <4>4
    <3>6. xytest' = Len(next)
      BY <1>3, <3>3, <3>4
    <3> QED
      BY <3>5, <3>6 DEF Shows
  <2>4. CASE Code = Backspace /\ l = <<>>
    <3>1. UNCHANGED console
      BY <1>3, <2>2, <2>4 DEF keyboard_int
    <3>2. next = l
      BY <1>5, <2>4 DEF Struck
    <3> QED
      BY <3>1, <3>2 DEF Shows, console
  <2>5. CASE Code = Backspace /\ l # <<>>
    <3>1. Len(l) \in Nat \ {0} /\ xytest = Len(l)
      BY <1>3, <2>5
    <3>2. next = SubSeq(l, 1, Len(l) - 1)
      BY <1>5, <2>5 DEF Struck
    <3>3. Len(next) = Len(l) - 1 /\ \A n \in 1 .. (Len(l) - 1) : next[n] = l[n]
      BY <3>1, <3>2
    <3>x. xytest > 0
      BY <3>1
    <3>p. PICK x : x = xytest'
      OBVIOUS
    <3>c. PICK ch : ch = Char(57, FALSE)
      OBVIOUS
    <3>4. x = xytest - 1 /\ screen' = Screen!printc(screen, x, 0, ch)
      BY <2>2, <2>5, <3>x, <3>p, <3>c DEF keyboard_int
    <3>5. ASSUME NEW n \in 1 .. Len(next), n <= Width
          PROVE  screen'[0][n - 1] = Screen!Glyph(next[n])
      <4>1. n - 1 \in 0 .. (Width - 1) /\ n - 1 # x /\ n \in 1 .. Len(l)
        BY <1>2, <3>1, <3>3, <3>4, <3>5
      <4>2. screen'[0][n - 1] = screen[0][n - 1]
        BY <3>4, <4>1, TopRow
      <4> QED
        BY <1>3, <3>3, <3>5, <4>1, <4>2
    <3>6. xytest' = Len(next)
      BY <3>1, <3>3, <3>4, <3>p
    <3> QED
      BY <3>5, <3>6 DEF Shows
  <2> QED
    BY <2>3, <2>4, <2>5
<1> QED
  BY <1>4, <1>5

\* _start's printing leaves the line on the screen, or it is noticed.
LEMMA PrintShows ==
  ASSUME TypeInv, PrintChar, ~overprinted', NEW l \in Seq(Characters), Shows(l)
  PROVE  Shows(l)'
<1>1. Width \in Nat \ {0} /\ 0 \in 0 .. (Height - 1)
  BY KeysAssumption
<1>2. xytest = Len(l) /\ xytest' = xytest
  BY DEF PrintChar, Shows
<1>3. CASE screen' = screen
  BY <1>2, <1>3 DEF Shows
<1>4. CASE screen' # screen
  <2>1. screen' = Screen!printc(screen, Head(jobs).x, Head(jobs).y, Head(Head(jobs).text))
    BY <1>4 DEF PrintChar, Screen!Shown
  <2>2. ~(Head(jobs).y = 0 /\ Head(jobs).x < xytest)
    BY <1>4 DEF PrintChar
  <2>3. ASSUME NEW n \in 1 .. Len(l), n <= Width
        PROVE  screen'[0][n - 1] = screen[0][n - 1]
    <3>1. n - 1 \in 0 .. (Width - 1) /\ n - 1 < xytest
      BY <1>1, <1>2, <2>3
    <3>2. ~(0 = Head(jobs).y /\ n - 1 = Head(jobs).x)
      BY <2>2, <3>1
    <3> QED
      BY <1>1, <2>1, <3>1, <3>2 DEF Screen!printc, Screen!Rows, Screen!Columns
  <2> QED
    BY <1>2, <2>3 DEF Shows
<1> QED
  BY <1>3, <1>4

\* A line that is shown and not touched stays shown.
LEMMA StillShows ==
  ASSUME UNCHANGED console, NEW l
  PROVE  Shows(l)' <=> Shows(l)
BY DEF Shows, console

\* The user's next code continues the histories of the line.
LEMMA WritesFurther ==
  ASSUME TypeInv, NEW m \in Histories(SUBSET Modifiers), NEW l \in Histories(Seq(Characters)),
         Leads(m), Writes(m, l), NEW n \in Nat, n = Len(codes),
         NEW code \in ScanCodes, codes' = Append(codes, code),
         NEW u \in SUBSET Modifiers, NEW t, t = line', t = Struck(line, UserMods, code),
         UNCHANGED console
  PROVE  /\ Grown(l, n, t) \in Histories(Seq(Characters))'
         /\ Writes(Grown(m, n, u), Grown(l, n, t))'
<1>1. t \in Seq(Characters)
  BY StruckType DEF TypeInv
<1>2. /\ Len(codes') = n + 1
      /\ \A i \in 1 .. n : codes'[i] = codes[i]
      /\ codes'[n + 1] = code
      /\ Grown(l, n, t) \in Histories(Seq(Characters))'
      /\ \A i \in 0 .. n : Grown(l, n, t)[i] = l[i]
      /\ Grown(l, n, t)[n + 1] = t
  BY <1>1, GrownHistory
<1>3. \A i \in 0 .. n : Grown(m, n, u)[i] = m[i]
  BY GrownHistory
<1>4. Shows(Grown(l, n, t)[0])'
  <2>1. PICK first : first = l[0]
    OBVIOUS
  <2>2. Grown(l, n, t)[0] = first
    BY <1>2, <2>1
  <2>3. Shows(first)
    BY <2>1 DEF Writes
  <2> QED
    BY <2>2, <2>3, StillShows
<1>5. Grown(l, n, t)[Len(codes')] = line'
  BY <1>2
<1>6. ASSUME NEW i \in 1 .. Len(codes')
      PROVE  Grown(l, n, t)[i] = Struck(Grown(l, n, t)[i - 1], Grown(m, n, u)[i - 1], codes'[i])
  <2>1. CASE i = n + 1
    <3>1. l[n] = line /\ m[n] = UserMods
      BY DEF Leads, Writes
    <3>2. i - 1 = n /\ n \in 0 .. n
      BY <2>1
    <3> QED
      BY <1>2, <1>3, <2>1, <3>1, <3>2
  <2>2. CASE i # n + 1
    <3>1. i \in 1 .. n /\ i - 1 \in 0 .. n /\ i \in 0 .. n
      BY <1>2, <2>2
    <3>2. l[i] = Struck(l[i - 1], m[i - 1], codes[i])
      BY <3>1 DEF Writes
    <3> QED
      BY <1>2, <1>3, <3>1, <3>2
  <2> QED
    BY <2>1, <2>2
<1> QED
  BY <1>2, <1>4, <1>5, <1>6 DEF Writes

\* The driver's next code takes the beginning of them.
LEMMA WritesOn ==
  ASSUME TypeInv, NEW m \in Histories(SUBSET Modifiers), NEW l \in Histories(Seq(Characters)),
         Leads(m), Writes(m, l), NEW n \in Nat, n = Len(codes), _keyboard_int
  PROVE  /\ Shrunk(l, n) \in Histories(Seq(Characters))'
         /\ Writes(Shrunk(m, n), Shrunk(l, n))'
<1>1. codes # <<>> /\ codes' = Tail(codes)
  BY DEF _keyboard_int
<1>2. /\ n > 0 /\ Len(codes') = n - 1 /\ Code = codes[1]
      /\ \A i \in 1 .. (n - 1) : codes'[i] = codes[i + 1]
      /\ Shrunk(l, n) \in Histories(Seq(Characters))'
      /\ \A i \in 0 .. (n - 1) : Shrunk(l, n)[i] = l[i + 1]
  BY <1>1, ShrunkHistory
<1>3. \A i \in 0 .. (n - 1) : Shrunk(m, n)[i] = m[i + 1]
  BY <1>1, ShrunkHistory
<1>4. line' = line
  BY DEF _keyboard_int, user
<1>5. PICK first, next : first = l[0] /\ next = l[1]
  OBVIOUS
<1>6. next = Struck(first, DriverMods, Code)
  <2>1. l[1] = Struck(l[1 - 1], m[1 - 1], codes[1])
    BY <1>2 DEF Writes
  <2> QED
    BY <1>2, <1>5, <2>1 DEF Leads
<1>7. first \in Seq(Characters)
  <2>1. l \in [0 .. n -> Seq(Characters)] /\ 0 \in 0 .. n
    BY DEF Histories
  <2> QED
    BY <1>5, <2>1
<1>8. Code \in ScanCodes
  BY <1>2 DEF TypeInv
<1>9. Shows(first)
  BY <1>5 DEF Writes
<1>10. Shows(next)'
  BY <1>6, <1>7, <1>8, <1>9, HandlerShows
<1>11. Shrunk(l, n)[0] = next
  BY <1>2, <1>5
<1>12. Shows(Shrunk(l, n)[0])'
  BY <1>10, <1>11
<1>13. Shrunk(l, n)[Len(codes')] = line'
  BY <1>2, <1>4 DEF Writes
<1>14. ASSUME NEW i \in 1 .. Len(codes')
       PROVE  Shrunk(l, n)[i] = Struck(Shrunk(l, n)[i - 1], Shrunk(m, n)[i - 1], codes'[i])
  <2>1. i \in 1 .. (n - 1) /\ i - 1 \in 0 .. (n - 1) /\ i \in 0 .. (n - 1) /\ i + 1 \in 1 .. n
    BY <1>2
  <2>2. l[i + 1] = Struck(l[i + 1 - 1], m[i + 1 - 1], codes[i + 1])
    BY <2>1 DEF Writes
  <2>3. i + 1 - 1 = i /\ i - 1 + 1 = i
    OBVIOUS
  <2> QED
    BY <1>2, <1>3, <2>1, <2>2, <2>3
<1> QED
  BY <1>2, <1>12, <1>13, <1>14 DEF Writes

\* What leaves the codes and the user alone, and what is shown, leaves them.
LEMMA WritesStill ==
  ASSUME NEW m, NEW l \in Histories(Seq(Characters)), Writes(m, l),
         UNCHANGED <<codes, user>>, Shows(l[0])'
  PROVE  l \in Histories(Seq(Characters))' /\ Writes(m, l)'
BY DEF Writes, Histories, user

\* At first nothing is on its way, and nothing is typed or shown.
LEMMA LineInit == Init => LineInv
<1> SUFFICES ASSUME Init
             PROVE  \E m \in Histories(SUBSET Modifiers), l \in Histories(Seq(Characters)) :
                      Leads(m) /\ Writes(m, l)
  BY DEF LineInv
<1>1. Len(codes) = 0 /\ line = <<>> /\ xytest = 0 /\ ~lost
  BY DEF Init
<1>2. PICK m \in Histories(SUBSET Modifiers) : Leads(m)
  BY <1>1, ModifiersInit DEF ModifiersInv
<1>3. PICK l : l = [i \in 0 .. 0 |-> <<>>]
  OBVIOUS
<1>4. l \in Histories(Seq(Characters))
  BY <1>1, <1>3 DEF Histories
<1>5. Writes(m, l)
  BY <1>1, <1>3 DEF Writes, Shows
<1> QED
  BY <1>2, <1>4, <1>5

\* Every step keeps histories of the modifiers and the line.
LEMMA LineStep == TypeInv /\ LineInv /\ [Next]_vars => LineInv'
<1> SUFFICES ASSUME TypeInv, LineInv, [Next]_vars, Tidy'
             PROVE  \E m \in Histories(SUBSET Modifiers)', l \in Histories(Seq(Characters))' :
                      Leads(m)' /\ Writes(m, l)'
  BY DEF LineInv
<1>n. PICK n \in Nat : n = Len(codes)
  BY DEF TypeInv
<1>m. ASSUME Tidy
      PROVE  \E m \in Histories(SUBSET Modifiers), l \in Histories(Seq(Characters)) :
               Leads(m) /\ Writes(m, l)
  BY <1>m DEF LineInv
<1>1. ASSUME NEW key \in Keys, Press(key) \/ Repeat(key) \/ Release(key)
      PROVE  \E m \in Histories(SUBSET Modifiers)', l \in Histories(Seq(Characters))' :
               Leads(m)' /\ Writes(m, l)'
  <2>1. PICK code \in ScanCodes :
          /\ codes' = Append(codes, code)
          /\ UserMods' = Turned(UserMods, code)
          /\ DriverMods' = DriverMods
          /\ UNCHANGED <<modifiers, console, lost, overprinted, fault>>
          /\ Press(key) \/ Repeat(key) => code = key
          /\ Release(key) => code = Break(key)
    BY <1>1, UserSteps
  <2>2. line' = Struck(line, UserMods, code)
    BY <1>1, <2>1, UserStrikes
  <2>3. Tidy
    BY <2>1 DEF Tidy
  <2>4. PICK m \in Histories(SUBSET Modifiers), l \in Histories(Seq(Characters)) :
          Leads(m) /\ Writes(m, l)
    BY <1>m, <2>3
  <2>5. PICK u, t : u = UserMods' /\ t = line'
    OBVIOUS
  <2>6. u \in SUBSET Modifiers
    BY <2>1, <2>5 DEF Turned
  <2>7. Grown(m, n, u) \in Histories(SUBSET Modifiers)' /\ Leads(Grown(m, n, u))'
    BY <1>n, <2>1, <2>4, <2>5, LeadsFurther
  <2>8. UNCHANGED console
    BY <2>1
  <2>9. /\ Grown(l, n, t) \in Histories(Seq(Characters))'
        /\ Writes(Grown(m, n, u), Grown(l, n, t))'
    BY <1>n, <2>1, <2>2, <2>4, <2>5, <2>6, <2>8, WritesFurther
  <2> QED
    BY <2>7, <2>9
<1>2. CASE _keyboard_int
  <2>1. Tidy
    BY <1>2 DEF _keyboard_int, Tidy
  <2>2. PICK m \in Histories(SUBSET Modifiers), l \in Histories(Seq(Characters)) :
          Leads(m) /\ Writes(m, l)
    BY <1>m, <2>1
  <2>3. Shrunk(m, n) \in Histories(SUBSET Modifiers)' /\ Leads(Shrunk(m, n))'
    BY <1>n, <1>2, <2>2, LeadsOn
  <2>4. /\ Shrunk(l, n) \in Histories(Seq(Characters))'
        /\ Writes(Shrunk(m, n), Shrunk(l, n))'
    BY <1>n, <1>2, <2>2, WritesOn
  <2> QED
    BY <2>3, <2>4
<1>3. CASE Steal
  BY <1>3 DEF Steal, Tidy
<1>4. ASSUME NEW code \in ErrorCodes, NEW address \in Addresses, PageFault(code, address)
      PROVE  FALSE
  <2>1. fault' = [code |-> code, address |-> address] /\ fault' = None
    BY <1>4 DEF PageFault, Tidy
  <2>2. DOMAIN [code |-> code, address |-> address] = {"code", "address"}
    OBVIOUS
  <2>3. DOMAIN None = {"none"}
    BY DEF None
  <2> QED
    BY <2>1, <2>2, <2>3
<1>5. CASE init_mouse \/ PrintChar \/ run_elf \/ NextString \/ UNCHANGED vars
  <2>1. UNCHANGED <<codes, modifiers, user, lost>>
    BY <1>5, OtherSteps
  <2>2. fault' = fault /\ (overprinted => overprinted')
    <3>1. CASE PrintChar
      <4>1. fault' = fault
        BY <3>1 DEF PrintChar
      <4>2. overprinted => overprinted'
        BY <3>1 DEF PrintChar
      <4> QED
        BY <4>1, <4>2
    <3>2. CASE init_mouse \/ run_elf \/ NextString \/ UNCHANGED vars
      <4>1. UNCHANGED <<fault, overprinted>>
        BY <3>2 DEF init_mouse, run_elf, NextString, vars
      <4> QED
        BY <4>1
    <3> QED
      BY <1>5, <3>1, <3>2
  <2>3. Tidy
    BY <2>1, <2>2 DEF Tidy
  <2>4. PICK m \in Histories(SUBSET Modifiers), l \in Histories(Seq(Characters)) :
          Leads(m) /\ Writes(m, l)
    BY <1>m, <2>3
  <2>5. PICK first : first = l[0]
    OBVIOUS
  <2>6. first \in Seq(Characters) /\ Shows(first)
    <3>1. l \in [0 .. n -> Seq(Characters)] /\ 0 \in 0 .. n
      BY <1>n, <2>4 DEF Histories
    <3> QED
      BY <2>4, <2>5, <3>1 DEF Writes
  <2>7. Shows(first)'
    <3>1. CASE PrintChar
      <4>1. ~overprinted'
        BY DEF Tidy
      <4> QED
        BY <2>6, <3>1, <4>1, PrintShows
    <3>2. CASE init_mouse \/ run_elf \/ NextString \/ UNCHANGED vars
      <4>1. UNCHANGED console
        BY <3>2 DEF init_mouse, run_elf, NextString, vars
      <4> QED
        BY <2>6, <4>1, StillShows
    <3> QED
      BY <1>5, <3>1, <3>2
  <2>8. m \in Histories(SUBSET Modifiers)' /\ Leads(m)'
    BY <2>1, <2>4, LeadsStill
  <2>9. l \in Histories(Seq(Characters))' /\ Writes(m, l)'
    <3>1. Shows(l[0])'
      BY <2>5, <2>7
    <3> QED
      BY <2>1, <2>4, <3>1, WritesStill
  <2> QED
    BY <2>8, <2>9
<1> QED
  BY <1>1, <1>2, <1>3, <1>4, <1>5 DEF Next

\* Once the driver has read every scan code, the top row shows what the user
\* typed, in the case the modifiers had when each key was struck, unless
\* init_mouse read a code, _start printed over the line or the kernel stopped.
THEOREM TypedIsShownCorrect == Spec => []TypedIsShown
<1>1. TypeInv /\ LineInv => TypedIsShown
  <2> SUFFICES ASSUME TypeInv, LineInv, codes = <<>>, Tidy
               PROVE  /\ xytest = Len(line)
                      /\ \A n \in DOMAIN line :
                           n <= Width => screen[0][n - 1] = Screen!Glyph(line[n])
    BY DEF TypedIsShown, Tidy
  <2>1. PICK m \in Histories(SUBSET Modifiers), l \in Histories(Seq(Characters)) :
          Leads(m) /\ Writes(m, l)
    BY DEF LineInv
  <2>2. l[0] = line
    BY <2>1 DEF Writes
  <2>3. Shows(line)
    BY <2>1, <2>2 DEF Writes
  <2>4. DOMAIN line = 1 .. Len(line)
    BY DEF TypeInv
  <2> QED
    BY <2>3, <2>4 DEF Shows
<1>2. TypeInv /\ LineInv /\ [Next]_vars => TypeInv' /\ LineInv'
  BY TypeStep, LineStep
<1> QED
  BY <1>1, <1>2, TypeInit, LineInit, PTL DEF Spec

-----------------------------------------------------------------------------
(* Recursive functions of numbers *)

\* A set of numbers that is not empty has a least one.
LEMMA LeastNumber ==
  ASSUME NEW S, S \subseteq Nat, S # {}
  PROVE  \E x \in S : \A y \in S : x <= y
<1> DEFINE R == {p \in Nat \X Nat : p[1] < p[2]}
<1>1. OpToRel(<, Nat) = R
  BY Zenon DEF OpToRel
<1>2. IsWellFoundedOn(R, Nat)
  BY <1>1, NatLessThanWellFounded, Zenon
<1> HIDE DEF R
<1>3. PICK x \in S : \A y \in S : <<y, x>> \notin R
  BY <1>2, WFMin, Zenon
<1>4. ASSUME NEW y \in S PROVE x <= y
  <2>1. <<y, x>> \in Nat \X Nat /\ <<y, x>> \notin R
    BY <1>3
  <2>2. ~(<<y, x>>[1] < <<y, x>>[2])
    BY <2>1, Zenon DEF R
  <2> QED
    BY <2>1, <2>2
<1> QED
  BY <1>4

\* A function of numbers that is `zero` at 0 and elsewhere what H makes of the
\* number and of its value at a number that `low` says.
Recurses(f, zero, low, H) ==
  \A n \in Nat : f[n] = IF n = 0 THEN zero ELSE H[<<n, f[low[n]]>>]

\* There is such a function.
RecursesIn(V, zero, low, H) == \E f \in [Nat -> V] : Recurses(f, zero, low, H)

\* A function of numbers may be defined by what it makes of its value at a
\* smaller number.
LEMMA Recursion ==
  ASSUME NEW V, NEW zero \in V, NEW low \in [Nat \ {0} -> Nat],
         \A n \in Nat \ {0} : low[n] < n,
         NEW H \in [(Nat \ {0}) \X V -> V]
  PROVE  RecursesIn(V, zero, low, H)
<1> DEFINE Step(f, n) == IF n = 0 THEN zero ELSE H[<<n, f[low[n]]>>]
           Upto(m) == {f \in [0 .. m -> V] : \A n \in 0 .. m : f[n] = Step(f, n)}
<1>1. ASSUME NEW m \in Nat, NEW k \in Nat, m <= k,
             NEW f \in Upto(m), NEW h \in Upto(k), NEW n \in 0 .. m
      PROVE  f[n] = h[n]
  <2> DEFINE S == {x \in 0 .. m : f[x] # h[x]}
  <2> SUFFICES ASSUME S # {} PROVE FALSE
    OBVIOUS
  <2>1. PICK x \in S : \A y \in S : x <= y
    <3>1. S \subseteq Nat
      OBVIOUS
    <3> HIDE DEF S
    <3> QED
      BY <3>1, LeastNumber
  <2>2. x \in 0 .. m /\ x \in 0 .. k /\ f[x] # h[x]
    BY <1>1
  <2>3. f[x] = Step(f, x) /\ h[x] = Step(h, x)
    BY <2>2
  <2>4. CASE x = 0
    BY <2>2, <2>3, <2>4
  <2>5. CASE x # 0
    <3>1. low[x] \in 0 .. m /\ ~(x <= low[x])
      BY <2>2, <2>5
    <3>2. low[x] \notin S
      BY <2>1, <3>1
    <3>3. f[low[x]] = h[low[x]]
      BY <3>1, <3>2
    <3> QED
      BY <2>2, <2>3, <2>5, <3>3
  <2> QED
    BY <2>4, <2>5
<1>2. ASSUME NEW m \in Nat PROVE Upto(m) # {}
  <2> DEFINE S == {x \in Nat : Upto(x) = {}}
  <2> SUFFICES ASSUME S # {} PROVE FALSE
    OBVIOUS
  <2>1. PICK x \in S : \A y \in S : x <= y
    <3>1. S \subseteq Nat
      OBVIOUS
    <3> HIDE DEF S
    <3> QED
      BY <3>1, LeastNumber
  <2>2. x \in Nat /\ Upto(x) = {}
    OBVIOUS
  <2>3. CASE x = 0
    <3>1. [n \in 0 .. 0 |-> zero] \in Upto(0)
      OBVIOUS
    <3> QED
      BY <2>2, <2>3, <3>1
  <2>4. CASE x # 0
    <3>1. x - 1 \in Nat /\ ~(x <= x - 1)
      BY <2>2, <2>4
    <3>2. x - 1 \notin S
      BY <2>1, <3>1
    <3>3. PICK f : f \in Upto(x - 1)
      BY <3>1, <3>2
    <3> DEFINE h == [n \in 0 .. x |-> IF n = x THEN H[<<x, f[low[x]]>>] ELSE f[n]]
    <3>4. low[x] \in 0 .. x - 1
      BY <2>2, <2>4
    <3>5. f \in [0 .. x - 1 -> V] /\ \A n \in 0 .. x - 1 : f[n] = Step(f, n)
      BY <3>3
    <3>6. f[low[x]] \in V
      BY <3>4, <3>5
    <3>7. H[<<x, f[low[x]]>>] \in V
      BY <2>2, <2>4, <3>6
    <3>8. \A n \in 0 .. x : n # x => n \in 0 .. x - 1
      BY <2>2
    <3>9. h \in [0 .. x -> V]
      BY <3>5, <3>7, <3>8
    <3>10. ASSUME NEW n \in 0 .. x PROVE h[n] = Step(h, n)
      <4>1. CASE n = x
        <5>1. h[n] = H[<<x, f[low[x]]>>]
          BY <4>1
        <5>2. h[low[x]] = f[low[x]]
          BY <2>2, <3>4
        <5> QED
          BY <2>4, <4>1, <5>1, <5>2
      <4>2. CASE n # x
        <5>1. n \in 0 .. x - 1 /\ h[n] = f[n]
          BY <3>8, <4>2
        <5>2. f[n] = Step(f, n)
          BY <3>5, <5>1
        <5>3. n # 0 => h[low[n]] = f[low[n]]
          <6>1. n # 0 => low[n] \in 0 .. x /\ low[n] # x
            BY <2>2, <5>1
          <6> QED
            BY <6>1
        <5> QED
          BY <5>1, <5>2, <5>3
      <4> QED
        BY <4>1, <4>2
    <3> QED
      BY <2>2, <3>9, <3>10
  <2> QED
    BY <2>3, <2>4
<1> DEFINE best(m) == CHOOSE f : f \in Upto(m)
           F == [m \in Nat |-> best(m)[m]]
<1>3. ASSUME NEW m \in Nat PROVE best(m) \in Upto(m)
  <2> HIDE DEF Upto
  <2> QED
    BY <1>2
<1> HIDE DEF best
<1>4. F \in [Nat -> V]
  <2>1. ASSUME NEW m \in Nat PROVE best(m)[m] \in V
    BY <1>3
  <2> QED
    BY <2>1
<1>5. ASSUME NEW n \in Nat PROVE F[n] = Step(F, n)
  <2>1. best(n) \in Upto(n)
    BY <1>3
  <2>2. F[n] = Step(best(n), n)
    BY <2>1
  <2>3. CASE n = 0
    BY <2>2, <2>3
  <2>4. CASE n # 0
    <3>1. low[n] \in Nat /\ low[n] <= n
      BY <2>4
    <3>2. best(low[n]) \in Upto(low[n])
      BY <1>3, <3>1
    <3>3. best(low[n])[low[n]] = best(n)[low[n]]
      <4>1. low[n] \in 0 .. low[n]
        BY <3>1
      <4> HIDE DEF Upto
      <4> QED
        BY <1>1, <2>1, <3>1, <3>2, <4>1
    <3>4. F[low[n]] = best(n)[low[n]]
      BY <3>1, <3>3
    <3> QED
      BY <2>2, <2>4, <3>4
  <2> QED
    BY <2>3, <2>4
<1> QED
  BY <1>4, <1>5 DEF RecursesIn, Recurses

-----------------------------------------------------------------------------
(* Numbers and their digits *)

\* The bases in which digits exist.
Bases == 2 .. 32

\* The characters that stand for digits, '0' to 'V'.
Numerals == 48 .. 86

\* A character of a string is a number.
LEMMA CharacterType ==
  ASSUME NEW s \in Seq(Nat), NEW n \in 1 .. Len(s)
  PROVE  s[n] \in Nat
OBVIOUS

\* A character is worth a number.
LEMMA WorthType ==
  ASSUME NEW c \in Nat
  PROVE  Worth(c) \in Int
<1>1. c - 65 + 10 \in Int /\ c - 48 \in Int
  OBVIOUS
<1> QED
  BY <1>1, Zenon DEF Worth

\* A digit's worth is what Digit wrote.
LEMMA DigitWorth ==
  ASSUME NEW d \in 0 .. 31
  PROVE  Digit(d) \in Numerals /\ Worth(Digit(d)) = d
BY DEF Digit, Worth, Numerals

\* Strings of digits are strings of character codes.
LEMMA NumeralStrings ==
  /\ Numerals \subseteq Nat /\ 48 \in Numerals
  /\ \A s \in Seq(Numerals) : s \in Seq(Nat)
<1>1. Numerals \subseteq Nat /\ 48 \in Numerals
  BY DEF Numerals
<1>2. ASSUME NEW s \in Seq(Numerals) PROVE s \in Seq(Nat)
  <2>1. Len(s) \in Nat /\ s \in [1 .. Len(s) -> Numerals]
    OBVIOUS
  <2>2. s \in [1 .. Len(s) -> Nat]
    BY <1>1, <2>1
  <2> QED
    BY <2>1, <2>2
<1> QED
  BY <1>1, <1>2

\* The loops of itoa and uitoa write the lowest digit before the others.
LEMMA LowDigitsIs ==
  ASSUME NEW base \in Bases
  PROVE  /\ LowDigits(0, base) = <<>>
         /\ \A v \in Nat :
              /\ LowDigits(v, base) \in Seq(Numerals)
              /\ v # 0 =>
                   LowDigits(v, base) = <<Digit(v % base)>> \o LowDigits(v \div base, base)
<1> DEFINE Is(f) == f = [n \in Nat |-> IF n = 0 THEN <<>>
                                       ELSE <<Digit(n % base)>> \o f[n \div base]]
           u == CHOOSE f : Is(f)
           V == Seq(Numerals)
           g == [n \in Nat \ {0} |-> n \div base]
           H == [x \in (Nat \ {0}) \X V |-> <<Digit(x[1] % base)>> \o x[2]]
<1>1. ASSUME NEW n \in Nat \ {0} PROVE g[n] \in Nat /\ g[n] < n
  <2>1. base \in Nat /\ base >= 2 /\ n \div base \in Nat /\ n % base \in 0 .. (base - 1)
        /\ n = (n \div base) * base + (n % base)
    BY DEF Bases
  <2> DEFINE q == n \div base
             r == n % base
  <2>2. g[n] = q
    OBVIOUS
  <2>3. q \in Nat /\ r \in Nat /\ n = q * base + r
    BY <2>1
  <2> HIDE DEF q, r
  <2>4. q * base >= q * 2
    BY <2>1, <2>3
  <2>5. q * base \in Nat
    BY <2>1, <2>3
  <2> HIDE DEF g
  <2> QED
    BY <2>2, <2>3, <2>4, <2>5
<1>2. ASSUME NEW n \in Nat PROVE Digit(n % base) \in Numerals
  BY DigitWorth DEF Bases
<1>3. H \in [(Nat \ {0}) \X V -> V]
  <2>1. ASSUME NEW x \in (Nat \ {0}) \X V PROVE <<Digit(x[1] % base)>> \o x[2] \in V
    <3>1. x[1] \in Nat /\ x[2] \in Seq(Numerals)
      OBVIOUS
    <3>2. Digit(x[1] % base) \in Numerals
      BY <1>2, <3>1
    <3> QED
      BY <3>1, <3>2
  <2> QED
    BY <2>1
<1>4. <<>> \in V /\ g \in [Nat \ {0} -> Nat] /\ \A n \in Nat \ {0} : g[n] < n
  BY <1>1
<1>5. PICK f \in [Nat -> V] : \A n \in Nat : f[n] = IF n = 0 THEN <<>> ELSE H[<<n, f[g[n]]>>]
  <2>1. PICK W, zero, low, step : W = V /\ zero = <<>> /\ low = g /\ step = H
    OBVIOUS
  <2> HIDE DEF V, g, H
  <2>2. /\ zero \in W /\ low \in [Nat \ {0} -> Nat] /\ \A n \in Nat \ {0} : low[n] < n
        /\ step \in [(Nat \ {0}) \X W -> W]
    BY <1>3, <1>4, <2>1
  <2>3. RecursesIn(W, zero, low, step)
    BY <2>2, Recursion
  <2> QED
    BY <2>1, <2>3 DEF RecursesIn, Recurses
<1>6. ASSUME NEW n \in Nat
      PROVE  f[n] = IF n = 0 THEN <<>> ELSE <<Digit(n % base)>> \o f[n \div base]
  <2>1. CASE n = 0
    BY <1>5, <2>1
  <2>2. CASE n # 0
    <3>1. g[n] = n \div base /\ g[n] \in Nat
      BY <1>1, <2>2
    <3>2. f[g[n]] \in V
      BY <3>1
    <3>3. H[<<n, f[g[n]]>>] = <<Digit(n % base)>> \o f[g[n]]
      BY <2>2, <3>2
    <3> QED
      BY <1>5, <2>2, <3>1, <3>3
  <2> QED
    BY <2>1, <2>2
<1>7. Is(f)
  BY <1>6
<1>8. Is(u)
  BY <1>7, Zenon
<1>9. ASSUME NEW v PROVE LowDigits(v, base) = u[v]
  BY Zenon DEF LowDigits
<1>10. \A n \in Nat : u[n] = IF n = 0 THEN <<>> ELSE <<Digit(n % base)>> \o u[n \div base]
  <2> HIDE DEF u
  <2> QED
    BY <1>8
<1> HIDE DEF u, V, g, H
<1>11. ASSUME NEW n \in Nat PROVE u[n] \in Seq(Numerals)
  <2> DEFINE S == {x \in Nat : u[x] \notin Seq(Numerals)}
  <2> SUFFICES ASSUME S # {} PROVE FALSE
    OBVIOUS
  <2>1. PICK x \in S : \A y \in S : x <= y
    <3>1. S \subseteq Nat
      OBVIOUS
    <3> HIDE DEF S
    <3> QED
      BY <3>1, LeastNumber
  <2>2. x \in Nat /\ u[x] \notin Seq(Numerals) /\ x # 0
    <3>1. u[0] = <<>>
      BY <1>10
    <3>2. <<>> \in Seq(Numerals)
      OBVIOUS
    <3> QED
      BY <3>1, <3>2
  <2>3. u[x] = <<Digit(x % base)>> \o u[x \div base]
    BY <1>10, <2>2
  <2>4. x \div base \in Nat /\ x \div base < x
    BY <1>1, <2>2 DEF g
  <2>5. x \div base \notin S
    BY <2>1, <2>2, <2>4
  <2>6. u[x \div base] \in Seq(Numerals)
    BY <2>4, <2>5
  <2>7. Digit(x % base) \in Numerals
    BY <1>2, <2>2
  <2>8. <<Digit(x % base)>> \o u[x \div base] \in Seq(Numerals)
    BY <2>6, <2>7
  <2> QED
    BY <2>2, <2>3, <2>8
<1>12. \A n \in Nat : n # 0 => n \div base \in Nat
  BY <1>1 DEF g
<1> QED
  BY <1>9, <1>10, <1>11, <1>12

\* What a string of digits denotes is found digit by digit.
LEMMA DenotedUpto ==
  ASSUME NEW base \in Bases, NEW s \in Seq(Nat)
  PROVE  \E f \in [0 .. Len(s) -> Int] :
           /\ f[0] = 0
           /\ \A k \in 1 .. Len(s) : f[k] = f[k - 1] * base + Worth(s[k])
           /\ Denoted(s, base) = f[Len(s)]
<1> DEFINE Is(f) == f = [k \in 0 .. Len(s) |-> IF k = 0 THEN 0
                                               ELSE f[k - 1] * base + Worth(s[k])]
           u == CHOOSE f : Is(f)
           low == [n \in Nat \ {0} |-> n - 1]
           worth == [n \in Nat |-> IF n \in 1 .. Len(s) THEN Worth(s[n]) ELSE 0]
           H == [x \in (Nat \ {0}) \X Int |-> x[2] * base + worth[x[1]]]
<1>1. base \in Nat /\ Len(s) \in Nat
  BY DEF Bases
<1>2. worth \in [Nat -> Int]
  BY DEF Worth
<1>3. H \in [(Nat \ {0}) \X Int -> Int]
  <2> HIDE DEF worth
  <2>1. ASSUME NEW x \in (Nat \ {0}) \X Int PROVE x[2] * base + worth[x[1]] \in Int
    <3>1. x[2] \in Int /\ worth[x[1]] \in Int
      BY <1>2
    <3>2. x[2] * base \in Int
      BY <1>1, <3>1
    <3> QED
      BY <3>1, <3>2
  <2> QED
    BY <2>1
<1>4. low \in [Nat \ {0} -> Nat] /\ \A n \in Nat \ {0} : low[n] < n
  OBVIOUS
<1>5. RecursesIn(Int, 0, low, H)
  <2>1. PICK W, zero, l, step : W = Int /\ zero = 0 /\ l = low /\ step = H
    OBVIOUS
  <2> HIDE DEF low, H
  <2>2. /\ zero \in W /\ l \in [Nat \ {0} -> Nat] /\ \A n \in Nat \ {0} : l[n] < n
        /\ step \in [(Nat \ {0}) \X W -> W]
    BY <1>3, <1>4, <2>1
  <2>3. RecursesIn(W, zero, l, step)
    BY <2>2, Recursion
  <2> QED
    BY <2>1, <2>3
<1>6. PICK f \in [Nat -> Int] : \A n \in Nat : f[n] = IF n = 0 THEN 0 ELSE H[<<n, f[low[n]]>>]
  BY <1>5 DEF RecursesIn, Recurses
<1>7. ASSUME NEW n \in 1 .. Len(s) PROVE f[n] = f[n - 1] * base + Worth(s[n])
  <2>1. n \in Nat \ {0} /\ n - 1 \in Nat /\ low[n] = n - 1
    BY <1>1
  <2>2. f[n - 1] \in Int
    BY <2>1
  <2>3. H[<<n, f[n - 1]>>] = f[n - 1] * base + worth[n]
    BY <2>1, <2>2
  <2>4. worth[n] = Worth(s[n])
    BY <2>1
  <2>5. f[n] = H[<<n, f[n - 1]>>]
    BY <1>6, <2>1
  <2> QED
    BY <2>3, <2>4, <2>5
<1>8. f[0] = 0
  BY <1>6
<1> DEFINE h == [k \in 0 .. Len(s) |-> f[k]]
<1>9. Is(h)
  <2>1. ASSUME NEW k \in 0 .. Len(s)
        PROVE  h[k] = IF k = 0 THEN 0 ELSE h[k - 1] * base + Worth(s[k])
    <3>1. CASE k = 0
      BY <1>8, <3>1
    <3>2. CASE k # 0
      <4>1. k \in 1 .. Len(s) /\ k - 1 \in 0 .. Len(s)
        BY <1>1, <3>2
      <4>2. h[k] = f[k] /\ h[k - 1] = f[k - 1]
        BY <4>1
      <4> QED
        BY <1>7, <3>2, <4>1, <4>2
    <3> QED
      BY <3>1, <3>2
  <2>2. h = [k \in 0 .. Len(s) |-> h[k]]
    OBVIOUS
  <2> HIDE DEF h
  <2> QED
    BY <2>1, <2>2
<1>10. Is(u)
  <2> HIDE DEF h
  <2> QED
    BY <1>9, Zenon
<1>11. Denoted(s, base) = u[Len(s)]
  BY Zenon DEF Denoted
<1> HIDE DEF u, h, low, H, worth
<1>12. /\ DOMAIN u = 0 .. Len(s)
       /\ \A k \in 0 .. Len(s) : u[k] = IF k = 0 THEN 0 ELSE u[k - 1] * base + Worth(s[k])
  BY <1>10
<1>13. u[0] = 0 /\ \A k \in 1 .. Len(s) : u[k] = u[k - 1] * base + Worth(s[k])
  <2>1. 0 \in 0 .. Len(s) /\ \A k \in 1 .. Len(s) : k \in 0 .. Len(s) /\ k # 0
    BY <1>1
  <2> QED
    BY <1>12, <2>1, Zenon
<1>14. ASSUME NEW n \in 0 .. Len(s) PROVE u[n] \in Int
  <2> DEFINE S == {x \in 0 .. Len(s) : u[x] \notin Int}
  <2> SUFFICES ASSUME S # {} PROVE FALSE
    OBVIOUS
  <2>1. PICK x \in S : \A y \in S : x <= y
    <3>1. S \subseteq Nat
      OBVIOUS
    <3> HIDE DEF S
    <3> QED
      BY <3>1, LeastNumber
  <2>2. x \in 1 .. Len(s) /\ u[x] \notin Int
    BY <1>13
  <2>3. x - 1 \in 0 .. Len(s) /\ ~(x <= x - 1)
    BY <2>2
  <2>4. u[x - 1] \in Int
    BY <2>1, <2>3
  <2>5. Worth(s[x]) \in Int
    <3>1. PICK c : c = s[x]
      OBVIOUS
    <3>2. c \in Nat
      BY <2>2, <3>1, CharacterType
    <3>3. Worth(c) \in Int
      BY <3>2, WorthType
    <3> QED
      BY <3>1, <3>3
  <2>6. u[x - 1] * base \in Int
    BY <1>1, <2>4
  <2>7. u[x] = u[x - 1] * base + Worth(s[x])
    BY <1>13, <2>2
  <2>8. PICK p, w : p = u[x - 1] * base /\ w = Worth(s[x])
    OBVIOUS
  <2>9. u[x] = p + w /\ p \in Int /\ w \in Int
    BY <2>5, <2>6, <2>7, <2>8, Zenon
  <2>10. p + w \in Int
    BY <2>9
  <2> QED
    BY <2>2, <2>9, <2>10, Zenon
<1>15. u = [k \in 0 .. Len(s) |-> u[k]]
  BY <1>10
<1>16. u \in [0 .. Len(s) -> Int]
  BY <1>14, <1>15
<1> QED
  BY <1>11, <1>13, <1>16

\* One more digit at the end.
LEMMA DenotedAppend ==
  ASSUME NEW base \in Bases, NEW s \in Seq(Nat), NEW c \in Nat
  PROVE  /\ Denoted(s, base) \in Int
         /\ Denoted(Append(s, c), base) = Denoted(s, base) * base + Worth(c)
<1>1. PICK f \in [0 .. Len(s) -> Int] :
        /\ f[0] = 0
        /\ \A k \in 1 .. Len(s) : f[k] = f[k - 1] * base + Worth(s[k])
        /\ Denoted(s, base) = f[Len(s)]
  BY DenotedUpto
<1> DEFINE t == Append(s, c)
<1>2. t \in Seq(Nat) /\ Len(t) = Len(s) + 1 /\ t[Len(s) + 1] = c
      /\ \A k \in 1 .. Len(s) : t[k] = s[k]
  OBVIOUS
<1> HIDE DEF t
<1>3. PICK h \in [0 .. Len(t) -> Int] :
        /\ h[0] = 0
        /\ \A k \in 1 .. Len(t) : h[k] = h[k - 1] * base + Worth(t[k])
        /\ Denoted(t, base) = h[Len(t)]
  BY <1>2, DenotedUpto
<1>4. ASSUME NEW n \in 0 .. Len(s) PROVE f[n] = h[n]
  <2> DEFINE S == {x \in 0 .. Len(s) : f[x] # h[x]}
  <2> SUFFICES ASSUME S # {} PROVE FALSE
    OBVIOUS
  <2>1. PICK x \in S : \A y \in S : x <= y
    <3>1. S \subseteq Nat
      OBVIOUS
    <3> HIDE DEF S
    <3> QED
      BY <3>1, LeastNumber
  <2>2. x \in 1 .. Len(s) /\ f[x] # h[x]
    BY <1>1, <1>3
  <2>3. x - 1 \in 0 .. Len(s) /\ ~(x <= x - 1)
    BY <2>2
  <2>4. f[x - 1] = h[x - 1]
    BY <2>1, <2>3
  <2>5. f[x] = f[x - 1] * base + Worth(s[x])
    BY <1>1, <2>2
  <2>6. h[x] = h[x - 1] * base + Worth(s[x])
    <3>1. x \in 1 .. Len(t) /\ t[x] = s[x]
      BY <1>2, <2>2
    <3> QED
      BY <1>3, <3>1
  <2> QED
    BY <2>2, <2>4, <2>5, <2>6
<1>5. h[Len(t)] = h[Len(s)] * base + Worth(c)
  <2>1. Len(t) \in 1 .. Len(t) /\ Len(t) - 1 = Len(s) /\ t[Len(t)] = c
    BY <1>2
  <2> QED
    BY <1>3, <2>1
<1>6. Len(s) \in 0 .. Len(s)
  OBVIOUS
<1> QED
  BY <1>1, <1>3, <1>4, <1>5, <1>6 DEF t

\* No digit denotes nothing.
LEMMA DenotedEmpty ==
  ASSUME NEW base \in Bases
  PROVE  Denoted(<<>>, base) = 0
<1>0. <<>> \in Seq(Nat) /\ Len(<<>>) = 0
  OBVIOUS
<1>1. PICK s \in Seq(Nat) : s = <<>>
  BY <1>0, Zenon
<1>2. PICK f \in [0 .. Len(s) -> Int] : f[0] = 0 /\ Denoted(s, base) = f[Len(s)]
  BY DenotedUpto
<1>3. Len(s) = 0
  BY <1>0, <1>1, Zenon
<1>4. f[Len(s)] = 0
  BY <1>2, <1>3, Zenon
<1>5. Denoted(s, base) = 0
  BY <1>2, <1>4, Zenon
<1> QED
  BY <1>1, <1>5, Zenon

\* The first character of a string is the last one of it reversed.
LEMMA ReverseIs ==
  ASSUME NEW s \in Seq(Numerals), NEW c \in Numerals
  PROVE  /\ reverse(s) \in Seq(Numerals) /\ Len(reverse(s)) = Len(s)
         /\ reverse(<<c>> \o s) = Append(reverse(s), c)
<1>1. ASSUME NEW t \in Seq(Numerals)
      PROVE  /\ reverse(t) \in Seq(Numerals) /\ Len(reverse(t)) = Len(t)
             /\ \A k \in 1 .. Len(t) : reverse(t)[k] = t[Len(t) + 1 - k]
  <2>1. DOMAIN t = 1 .. Len(t) /\ Len(t) \in Nat
    OBVIOUS
  <2>2. \A k \in 1 .. Len(t) : t[Len(t) + 1 - k] \in Numerals
    BY <2>1
  <2>3. reverse(t) \in [1 .. Len(t) -> Numerals]
    BY <2>1, <2>2 DEF reverse
  <2>4. reverse(t) \in Seq(Numerals) /\ Len(reverse(t)) = Len(t)
    BY <2>1, <2>3
  <2> QED
    BY <2>1, <2>4 DEF reverse
<1> DEFINE w == <<c>> \o s
<1>2. w \in Seq(Numerals) /\ Len(w) = Len(s) + 1 /\ w[1] = c
      /\ \A k \in 2 .. Len(s) + 1 : w[k] = s[k - 1]
  OBVIOUS
<1> HIDE DEF w
<1>3. Append(reverse(s), c) \in Seq(Numerals) /\ Len(Append(reverse(s), c)) = Len(s) + 1
  BY <1>1
<1>4. ASSUME NEW k \in 1 .. Len(s) + 1 PROVE reverse(w)[k] = Append(reverse(s), c)[k]
  <2>1. reverse(w)[k] = w[Len(w) + 1 - k]
    BY <1>1, <1>2
  <2>2. CASE k = Len(s) + 1
    BY <1>1, <1>2, <2>1, <2>2
  <2>3. CASE k # Len(s) + 1
    <3>1. k \in 1 .. Len(s) /\ Len(w) + 1 - k \in 2 .. Len(s) + 1
          /\ Len(w) + 1 - k - 1 = Len(s) + 1 - k
      BY <1>2, <2>3
    <3>2. w[Len(w) + 1 - k] = s[Len(s) + 1 - k]
      <4>1. PICK j : j = Len(w) + 1 - k
        OBVIOUS
      <4>2. j \in 2 .. Len(s) + 1 /\ j - 1 = Len(s) + 1 - k
        BY <3>1, <4>1
      <4>3. w[j] = s[j - 1]
        BY <1>2, <4>2
      <4> QED
        BY <4>1, <4>2, <4>3
    <3>3. Append(reverse(s), c)[k] = reverse(s)[k]
      BY <1>1, <3>1
    <3> QED
      BY <1>1, <2>1, <3>1, <3>2, <3>3
  <2> QED
    BY <2>2, <2>3
<1>5. reverse(w) \in Seq(Numerals) /\ Len(reverse(w)) = Len(s) + 1
  BY <1>1, <1>2
<1>6. reverse(w) = Append(reverse(s), c)
  BY <1>3, <1>4, <1>5
<1> QED
  BY <1>1, <1>6 DEF w

\* What uitoa writes denotes the number it was given, whatever the base.
THEOREM uitoaCorrect ==
  \A value \in Nat, base \in 2 .. 32 : \A buffer :
    /\ uitoa(value, buffer, base) \in Seq(48 .. 86)
    /\ uitoa(value, buffer, base) # <<>>
    /\ Denoted(uitoa(value, buffer, base), base) = value
<1> SUFFICES ASSUME NEW value \in Nat, NEW base \in Bases, NEW buffer
             PROVE  /\ uitoa(value, buffer, base) \in Seq(Numerals)
                    /\ uitoa(value, buffer, base) # <<>>
                    /\ Denoted(uitoa(value, buffer, base), base) = value
  BY DEF Bases, Numerals
<1>1. ASSUME NEW v \in Nat
      PROVE  LowDigits(v, base) \in Seq(Numerals) /\ reverse(LowDigits(v, base)) \in Seq(Numerals)
  <2>1. LowDigits(v, base) \in Seq(Numerals)
    BY LowDigitsIs
  <2> QED
    BY <2>1, ReverseIs, NumeralStrings
<1>2. ASSUME NEW v \in Nat \ {0}
      PROVE  /\ v \div base \in Nat /\ v \div base < v /\ v % base \in 0 .. 31
             /\ v = (v \div base) * base + (v % base)
             /\ reverse(LowDigits(v, base))
                  = Append(reverse(LowDigits(v \div base, base)), Digit(v % base))
  <2> DEFINE q == v \div base
             r == v % base
  <2>1. base \in Nat /\ base >= 2 /\ q \in Nat /\ r \in 0 .. 31 /\ v = q * base + r
    BY DEF Bases
  <2>2. LowDigits(v, base) = <<Digit(r)>> \o LowDigits(q, base)
    BY LowDigitsIs
  <2> HIDE DEF q, r
  <2>3. q * base >= q * 2 /\ q * base \in Nat
    BY <2>1
  <2>4. q < v
    BY <2>1, <2>3
  <2>5. LowDigits(q, base) \in Seq(Numerals) /\ Digit(r) \in Numerals
    BY <1>1, <2>1, DigitWorth
  <2>6. reverse(LowDigits(v, base)) = Append(reverse(LowDigits(q, base)), Digit(r))
    BY <2>2, <2>5, ReverseIs
  <2>7. q \in Nat /\ q < v /\ r \in 0 .. 31 /\ v = q * base + r
    BY <2>1, <2>4
  <2> QED
    BY <2>6, <2>7, Zenon DEF q, r
<1>3. ASSUME NEW v \in Nat PROVE Denoted(reverse(LowDigits(v, base)), base) = v
  <2> DEFINE S == {x \in Nat : Denoted(reverse(LowDigits(x, base)), base) # x}
  <2> SUFFICES ASSUME S # {} PROVE FALSE
    OBVIOUS
  <2>1. PICK x \in S : \A y \in S : x <= y
    <3>1. S \subseteq Nat
      OBVIOUS
    <3> HIDE DEF S
    <3> QED
      BY <3>1, LeastNumber
  <2>2. x \in Nat /\ Denoted(reverse(LowDigits(x, base)), base) # x
    OBVIOUS
  <2>3. CASE x = 0
    <3>1. reverse(<<>>) = <<>>
      BY DEF reverse
    <3>2. Denoted(reverse(LowDigits(0, base)), base) = 0
      BY <3>1, DenotedEmpty, LowDigitsIs
    <3> QED
      BY <2>2, <2>3, <3>2
  <2>4. CASE x # 0
    <3> DEFINE q == x \div base
               r == x % base
    <3>1. /\ q \in Nat /\ q < x /\ r \in 0 .. 31 /\ x = q * base + r
          /\ reverse(LowDigits(x, base)) = Append(reverse(LowDigits(q, base)), Digit(r))
      <4>1. x \in Nat \ {0}
        BY <2>2, <2>4
      <4> QED
        BY <1>2, <4>1, Zenon
    <3> HIDE DEF q, r
    <3>2. q \notin S
      BY <2>1, <2>2, <3>1
    <3>3. Denoted(reverse(LowDigits(q, base)), base) = q
      BY <3>1, <3>2
    <3>4. Digit(r) \in Numerals /\ Worth(Digit(r)) = r
      BY <3>1, DigitWorth
    <3>5. reverse(LowDigits(q, base)) \in Seq(Numerals)
      BY <1>1, <3>1
    <3>6. Denoted(reverse(LowDigits(x, base)), base) = q * base + r
      BY <3>1, <3>3, <3>4, <3>5, DenotedAppend, NumeralStrings
    <3> QED
      BY <2>2, <3>1, <3>6
  <2> QED
    BY <2>3, <2>4
<1>4. CASE value = 0
  <2>1. uitoa(value, buffer, base) = <<48>>
    BY <1>4 DEF uitoa, Bases
  <2>2. /\ Append(<<>>, 48) = <<48>> /\ <<48>> \in Seq(Numerals) /\ <<48>> # <<>>
        /\ <<>> \in Seq(Nat) /\ 48 \in Nat
    BY NumeralStrings
  <2>3. Denoted(Append(<<>>, 48), base) = Denoted(<<>>, base) * base + Worth(48)
    BY <2>2, DenotedAppend
  <2>4. Worth(48) = 0
    BY DEF Worth
  <2>5. Denoted(<<>>, base) = 0
    BY DenotedEmpty
  <2>6. 0 * base + 0 = 0
    BY DEF Bases
  <2>7. Denoted(<<48>>, base) = 0
    BY <2>2, <2>3, <2>4, <2>5, <2>6
  <2> QED
    BY <1>4, <2>1, <2>2, <2>7
<1>5. CASE value # 0
  <2>1. uitoa(value, buffer, base) = reverse(LowDigits(value, base))
    BY <1>5 DEF uitoa, Bases
  <2>2. reverse(LowDigits(value, base)) # <<>>
    <3>1. value \div base \in Nat /\ Digit(value % base) \in Numerals
      BY <1>2, <1>5, DigitWorth
    <3>2. reverse(LowDigits(value \div base, base)) \in Seq(Numerals)
      BY <1>1, <3>1
    <3>3. \A t \in Seq(Nat), d \in Nat : Append(t, d) # <<>>
      OBVIOUS
    <3>4. Append(reverse(LowDigits(value \div base, base)), Digit(value % base)) # <<>>
      BY <3>1, <3>2, <3>3, NumeralStrings
    <3> QED
      BY <1>2, <1>5, <3>4
  <2> QED
    BY <1>1, <1>3, <2>1, <2>2
<1> QED
  BY <1>4, <1>5

-----------------------------------------------------------------------------
(* Strings on the screen *)

\* A C string: the codes of its characters, without the 0 at its end.
Strings == Seq([code : Nat])

\* What a cell of the screen can show.
Cells == [code : Nat] \cup [key : 0 .. 58, upper : BOOLEAN] \cup {[junk |-> TRUE]}

\* The screen's contents.
Screens == [Screen!Rows -> [Screen!Columns -> Cells]]

\* A character shows as itself, a key's as itself or as junk.
LEMMA GlyphIs ==
  /\ \A ch \in [code : Nat] : Screen!Glyph(ch) = ch
  /\ \A ch \in [key : 0 .. 58, upper : BOOLEAN] : Screen!Glyph(ch) \in Cells
<1>1. ASSUME NEW ch \in [code : Nat] PROVE Screen!Glyph(ch) = ch
  <2>1. \A k, u : ch # Char(k, u)
    <3>1. DOMAIN ch = {"code"}
      OBVIOUS
    <3>2. \A k, u : DOMAIN Char(k, u) = {"key", "upper"}
      BY DEF Char
    <3> QED
      BY <3>1, <3>2
  <2> QED
    BY <2>1 DEF Screen!Glyph
<1> QED
  BY <1>1 DEF Screen!Glyph, Cells

\* Drawing a character changes the one cell.
LEMMA PrintcIs ==
  ASSUME NEW s \in Screens, NEW x, NEW y, NEW ch, Screen!Glyph(ch) \in Cells
  PROVE  /\ Screen!printc(s, x, y, ch) \in Screens
         /\ \A r \in Screen!Rows, c \in Screen!Columns :
              Screen!printc(s, x, y, ch)[r][c]
                = IF r = y /\ c = x THEN Screen!Glyph(ch) ELSE s[r][c]
BY DEF Screens, Screen!printc

\* The screen with the first n characters of a string in the row y.
RowShows(s, y, text, n) ==
  [r \in Screen!Rows |-> [c \in Screen!Columns |->
     IF r = y /\ c < n THEN Screen!Glyph(text[c + 1]) ELSE s[r][c]]]

\* What is left of a string behind its first n characters.
Rest(text, n) == SubSeq(text, n + 1, Len(text))

\* What is left of a string loses its first character with each round.
LEMMA RestIs ==
  ASSUME NEW T, NEW text \in Seq(T)
  PROVE  /\ Rest(text, 0) = text
         /\ \A n \in 0 .. Len(text) : Rest(text, n) = <<>> <=> n = Len(text)
         /\ \A n \in 0 .. Len(text) - 1 :
              Head(Rest(text, n)) = text[n + 1] /\ Tail(Rest(text, n)) = Rest(text, n + 1)
<1>1. text \in Seq(T) /\ Len(text) \in Nat
  OBVIOUS
<1>2. Rest(text, 0) = text
  BY <1>1 DEF Rest
<1>3. ASSUME NEW n \in 0 .. Len(text)
      PROVE  /\ Rest(text, n) \in Seq(T) /\ Len(Rest(text, n)) = Len(text) - n
             /\ \A k \in 1 .. Len(text) - n : Rest(text, n)[k] = text[n + k]
  BY <1>1 DEF Rest
<1>4. ASSUME NEW n \in 0 .. Len(text) - 1
      PROVE  Head(Rest(text, n)) = text[n + 1] /\ Tail(Rest(text, n)) = Rest(text, n + 1)
  <2>1. n \in 0 .. Len(text) /\ n + 1 \in 0 .. Len(text)
    BY <1>1
  <2> DEFINE t == Rest(text, n)
             z == Rest(text, n + 1)
  <2>2. /\ t \in Seq(T) /\ Len(t) = Len(text) - n
        /\ \A k \in 1 .. Len(text) - n : t[k] = text[n + k]
    BY <1>3, <2>1
  <2>3. /\ z \in Seq(T) /\ Len(z) = Len(text) - (n + 1)
        /\ \A k \in 1 .. Len(text) - (n + 1) : z[k] = text[n + 1 + k]
    BY <1>3, <2>1
  <2> HIDE DEF t, z
  <2>4. t # <<>> /\ Head(t) = text[n + 1]
    BY <1>1, <2>2
  <2>5. /\ Tail(t) \in Seq(T) /\ Len(Tail(t)) = Len(z)
        /\ \A k \in 1 .. Len(z) : Tail(t)[k] = t[k + 1]
    BY <1>1, <2>2, <2>3, <2>4
  <2>6. \A k \in 1 .. Len(z) : Tail(t)[k] = z[k]
    <3>1. ASSUME NEW k \in 1 .. Len(z) PROVE Tail(t)[k] = z[k]
      <4>1. PICK j : j = k + 1
        OBVIOUS
      <4>2. k \in 1 .. Len(text) - (n + 1) /\ j \in 1 .. Len(text) - n /\ n + 1 + k = n + j
        BY <1>1, <2>3, <4>1
      <4> QED
        BY <2>2, <2>3, <2>5, <4>1, <4>2
    <3> QED
      BY <3>1
  <2>7. Tail(t) = z
    <3>1. PICK w : w = Tail(t)
      OBVIOUS
    <3>2. w \in Seq(T) /\ Len(w) = Len(z) /\ \A k \in 1 .. Len(z) : w[k] = z[k]
      BY <2>5, <2>6, <3>1
    <3>3. w = z
      BY <2>3, <3>2
    <3> QED
      BY <3>1, <3>3
  <2> QED
    BY <2>4, <2>7 DEF t, z
<1>5. ASSUME NEW n \in 0 .. Len(text) PROVE Rest(text, n) = <<>> <=> n = Len(text)
  <2>1. Rest(text, n) = <<>> <=> Len(Rest(text, n)) = 0
    BY <1>3
  <2>2. Len(Rest(text, n)) = 0 <=> n = Len(text)
    BY <1>1, <1>3
  <2> QED
    BY <2>1, <2>2
<1> QED
  BY <1>2, <1>4, <1>5

\* One round of a string that is neither at its end nor at the screen's edge.
LEMMA RoundIs ==
  ASSUME NEW s, NEW x \in Nat, NEW y, NEW text \in Strings, NEW n \in 0 .. Len(text) - 1,
         x < Screen!fb_width, text[n + 1] # Ascii(10)
  PROVE  /\ Screen!Shown(s, Screen!Job(x, y, Rest(text, n)))
              = Screen!printc(s, x, y, text[n + 1])
         /\ Screen!NextJob(Screen!Job(x, y, Rest(text, n)))
              = Screen!Job(x + 1, y, Rest(text, n + 1))
<1> DEFINE job == Screen!Job(x, y, Rest(text, n))
<1>1. Head(Rest(text, n)) = text[n + 1] /\ Tail(Rest(text, n)) = Rest(text, n + 1)
  BY RestIs DEF Strings
<1>2. job.x = x /\ job.y = y /\ job.text = Rest(text, n)
  BY DEF Screen!Job
<1>3. Screen!fb_width \in Nat
  BY KeysAssumption DEF Screen!fb_width
<1> HIDE DEF job
<1>4. ~Screen!Breaks(job)
  <2>1. ~(x >= Screen!fb_width)
    BY <1>3
  <2>2. Head(job.text) # Ascii(10)
    BY <1>1, <1>2
  <2> QED
    BY <1>2, <2>1, <2>2 DEF Screen!Breaks
<1>5. Screen!Shown(s, job) = Screen!printc(s, x, y, text[n + 1])
  BY <1>1, <1>2, <1>4 DEF Screen!Shown
<1>6. Screen!NextJob(job) = Screen!Job(x + 1, y, Rest(text, n + 1))
  BY <1>1, <1>2, <1>4 DEF Screen!NextJob
<1> QED
  BY <1>5, <1>6 DEF job

\* prints puts a string of one line, not longer than the screen is wide in
\* pixels, into its row, as far as the row goes, and nothing anywhere else.
LEMMA PrintsRow ==
  ASSUME NEW s \in Screens, NEW y, NEW text \in Strings, Len(text) <= Screen!fb_width,
         \A n \in DOMAIN text : text[n] # Ascii(10)
  PROVE  Screen!prints(s, 0, y, text) = RowShows(s, y, text, Len(text))
<1> DEFINE Is(f) == f = [n \in 0 .. Len(text) |->
                           IF n = 0 THEN [screen |-> s, job |-> Screen!Job(0, y, text)]
                           ELSE [screen |-> Screen!Shown(f[n - 1].screen, f[n - 1].job),
                                 job |-> Screen!NextJob(f[n - 1].job)]]
           u == CHOOSE f : Is(f)
           w == [n \in 0 .. Len(text) |->
                   [screen |-> RowShows(s, y, text, n),
                    job |-> Screen!Job(n, y, Rest(text, n))]]
<1>1. Len(text) \in Nat /\ DOMAIN text = 1 .. Len(text)
  BY DEF Strings
<1>2. Screen!fb_width \in Nat
  BY KeysAssumption DEF Screen!fb_width
<1>3. RowShows(s, y, text, 0) = s
  <2>1. \A c \in Screen!Columns : ~(c < 0)
    BY DEF Screen!Columns
  <2>2. RowShows(s, y, text, 0) = [r \in Screen!Rows |-> [c \in Screen!Columns |-> s[r][c]]]
    BY <2>1 DEF RowShows
  <2>3. s = [r \in Screen!Rows |-> [c \in Screen!Columns |-> s[r][c]]]
    BY DEF Screens
  <2> QED
    BY <2>2, <2>3
<1>4. ASSUME NEW n \in 1 .. Len(text)
      PROVE  w[n] = [screen |-> Screen!Shown(w[n - 1].screen, w[n - 1].job),
                     job |-> Screen!NextJob(w[n - 1].job)]
  <2>1. PICK m : m = n - 1
    OBVIOUS
  <2>2. m \in 0 .. Len(text) - 1 /\ m \in 0 .. Len(text) /\ m + 1 = n /\ m \in Nat
        /\ m < Screen!fb_width
    BY <1>1, <1>2, <2>1
  <2>3. w[m].screen = RowShows(s, y, text, m) /\ w[m].job = Screen!Job(m, y, Rest(text, m))
    BY <2>2
  <2>4. text[m + 1] # Ascii(10)
    BY <1>1, <2>2
  <2>5. /\ Screen!Shown(RowShows(s, y, text, m), Screen!Job(m, y, Rest(text, m)))
             = Screen!printc(RowShows(s, y, text, m), m, y, text[n])
        /\ Screen!NextJob(Screen!Job(m, y, Rest(text, m))) = Screen!Job(n, y, Rest(text, n))
    BY <2>2, <2>4, RoundIs
  <2>6. Screen!printc(RowShows(s, y, text, m), m, y, text[n]) = RowShows(s, y, text, n)
    <3>1. ASSUME NEW r \in Screen!Rows, NEW c \in Screen!Columns
          PROVE  (IF r = y /\ c = m THEN Screen!Glyph(text[n])
                  ELSE IF r = y /\ c < m THEN Screen!Glyph(text[c + 1]) ELSE s[r][c])
                 = (IF r = y /\ c < n THEN Screen!Glyph(text[c + 1]) ELSE s[r][c])
      <4>1. c \in Nat /\ (c < n <=> c = m \/ c < m)
        BY <2>2, KeysAssumption DEF Screen!Columns
      <4> QED
        BY <2>2, <4>1
    <3> QED
      BY <3>1 DEF Screen!printc, RowShows
  <2>7. w[n] = [screen |-> RowShows(s, y, text, n), job |-> Screen!Job(n, y, Rest(text, n))]
    BY <1>1
  <2> HIDE DEF w
  <2> QED
    BY <2>1, <2>3, <2>5, <2>6, <2>7
<1>5. w[0] = [screen |-> s, job |-> Screen!Job(0, y, text)]
  BY <1>1, <1>3, RestIs DEF Strings
<1>6. Is(w)
  <2>1. ASSUME NEW n \in 0 .. Len(text)
        PROVE  w[n] = IF n = 0 THEN [screen |-> s, job |-> Screen!Job(0, y, text)]
                      ELSE [screen |-> Screen!Shown(w[n - 1].screen, w[n - 1].job),
                            job |-> Screen!NextJob(w[n - 1].job)]
    <3>1. n = 0 \/ n \in 1 .. Len(text)
      BY <1>1
    <3> HIDE DEF w
    <3> QED
      BY <1>4, <1>5, <3>1
  <2>2. w = [n \in 0 .. Len(text) |-> w[n]]
    OBVIOUS
  <2> HIDE DEF w
  <2> QED
    BY <2>1, <2>2
<1>7. Is(u)
  <2> HIDE DEF w
  <2> QED
    BY <1>6, Zenon
<1>8. Screen!prints(s, 0, y, text) = u[Len(text)].screen
  BY Zenon DEF Screen!prints
<1>9. w[Len(text)].screen = RowShows(s, y, text, Len(text))
  BY <1>1
<1> HIDE DEF u, w
<1>10. ASSUME NEW n \in 0 .. Len(text) PROVE u[n] = w[n]
  <2> DEFINE S == {x \in 0 .. Len(text) : u[x] # w[x]}
  <2> SUFFICES ASSUME S # {} PROVE FALSE
    OBVIOUS
  <2>1. PICK x \in S : \A z \in S : x <= z
    <3>1. S \subseteq Nat
      OBVIOUS
    <3> HIDE DEF S
    <3> QED
      BY <3>1, LeastNumber
  <2>2. x \in 0 .. Len(text) /\ u[x] # w[x]
    OBVIOUS
  <2>3. u[0] = w[0]
    BY <1>1, <1>5, <1>7
  <2>4. x \in 1 .. Len(text) /\ x - 1 \in 0 .. Len(text) /\ ~(x <= x - 1)
    BY <1>1, <2>2, <2>3
  <2>5. u[x - 1] = w[x - 1]
    BY <2>1, <2>4
  <2>6. u[x] = [screen |-> Screen!Shown(u[x - 1].screen, u[x - 1].job),
                job |-> Screen!NextJob(u[x - 1].job)]
    BY <1>7, <2>4
  <2> QED
    BY <1>4, <2>2, <2>4, <2>5, <2>6
<1>11. Len(text) \in 0 .. Len(text)
  BY <1>1
<1> QED
  BY <1>8, <1>9, <1>10, <1>11

-----------------------------------------------------------------------------
(* The screen and what _start prints *)

\* A number's digits are a string without new lines; a row that begins with
\* them reads the number.
LEMMA HexIs ==
  ASSUME NEW v \in Nat
  PROVE  /\ Hex(v) \in Strings /\ Hex(v) # <<>>
         /\ Len(Hex(v)) = Len(uitoa(v, <<>>, 16))
         /\ \A n \in DOMAIN Hex(v) : Hex(v)[n] # Ascii(10)
<1> DEFINE d == uitoa(v, <<>>, 16)
<1>1. d \in Seq(Numerals) /\ d # <<>>
  <2>1. 16 \in 2 .. 32
    OBVIOUS
  <2> QED
    BY <2>1, uitoaCorrect DEF Numerals
<1>2. Hex(v) = [n \in DOMAIN d |-> Ascii(d[n])]
  BY DEF Hex
<1> HIDE DEF d
<1>3. DOMAIN d = 1 .. Len(d) /\ Len(d) \in Nat /\ \A n \in 1 .. Len(d) : d[n] \in Numerals
  BY <1>1
<1>4. ASSUME NEW n \in 1 .. Len(d)
      PROVE  Ascii(d[n]) \in [code : Nat] /\ Ascii(d[n]) # Ascii(10)
  <2>1. PICK c : c = d[n]
    OBVIOUS
  <2>2. c \in 48 .. 86
    BY <1>3, <2>1 DEF Numerals
  <2>3. Ascii(c) \in [code : Nat]
    BY <2>2 DEF Ascii
  <2>4. Ascii(c).code = c /\ Ascii(10).code = 10 /\ c # 10
    BY <2>2 DEF Ascii
  <2>5. Ascii(c) # Ascii(10)
    BY <2>4
  <2> QED
    BY <2>1, <2>3, <2>5
<1>5. Hex(v) \in [1 .. Len(d) -> [code : Nat]]
  BY <1>2, <1>3, <1>4
<1>6. Hex(v) \in Strings /\ Len(Hex(v)) = Len(d)
  <2>1. PICK T : T = [code : Nat]
    OBVIOUS
  <2>2. Hex(v) \in [1 .. Len(d) -> T]
    BY <1>5, <2>1
  <2>3. Hex(v) \in Seq(T) /\ Len(Hex(v)) = Len(d)
    BY <1>3, <2>2
  <2> QED
    BY <2>1, <2>3 DEF Strings
<1>7. DOMAIN Hex(v) = 1 .. Len(d) /\ 1 \in 1 .. Len(d)
  BY <1>1, <1>2, <1>3
<1>8. Hex(v) # <<>>
  <2>1. DOMAIN <<>> = {}
    OBVIOUS
  <2> QED
    BY <1>7, <2>1
<1> QED
  BY <1>2, <1>3, <1>4, <1>6, <1>7, <1>8 DEF d

\* The row begins with these digits.
Begins(row, text) == \A k \in 1 .. Len(text) : row[k - 1] = text[k]

\* A row that begins with a number's digits reads as the number.
LEMMA RowReads ==
  ASSUME NEW v \in Nat, NEW row, Begins(row, Hex(v)), Len(Hex(v)) <= Width
  PROVE  Reads(row, v)
<1> DEFINE d == uitoa(v, <<>>, 16)
<1>1. d \in Seq(Numerals) /\ d # <<>> /\ Denoted(d, 16) = v
  <2>1. 16 \in 2 .. 32
    OBVIOUS
  <2> QED
    BY <2>1, uitoaCorrect DEF Numerals
<1>2. Hex(v) = [n \in DOMAIN d |-> Ascii(d[n])]
  BY DEF Hex
<1> HIDE DEF d
<1>3. DOMAIN d = 1 .. Len(d) /\ Len(d) \in Nat \ {0}
  BY <1>1
<1>4. Len(Hex(v)) = Len(d)
  BY HexIs DEF d
<1>5. ASSUME NEW k \in 1 .. Len(d) PROVE row[k - 1] = Ascii(d[k])
  BY <1>2, <1>3, <1>4 DEF Begins
<1>6. ASSUME NEW k \in 0 .. Len(d) - 1 PROVE "code" \in DOMAIN row[k]
  <2>1. PICK j : j = k + 1
    OBVIOUS
  <2>2. j \in 1 .. Len(d) /\ j - 1 = k
    BY <1>3, <2>1
  <2>3. row[k] = Ascii(d[j])
    BY <1>5, <2>2
  <2> QED
    BY <2>3 DEF Ascii
<1>7. [k \in 1 .. Len(d) |-> row[k - 1].code] = d
  <2>1. ASSUME NEW k \in 1 .. Len(d) PROVE row[k - 1].code = d[k]
    <3>1. PICK c : c = d[k]
      OBVIOUS
    <3>2. row[k - 1] = Ascii(c)
      BY <1>5, <3>1
    <3>3. Ascii(c).code = c
      BY DEF Ascii
    <3> QED
      BY <3>1, <3>2, <3>3
  <2>2. d = [k \in 1 .. Len(d) |-> d[k]]
    BY <1>1
  <2> QED
    BY <2>1, <2>2
<1>8. Len(d) \in 1 .. Width
  BY <1>3, <1>4, KeysAssumption
<1> QED
  BY <1>1, <1>6, <1>7, <1>8 DEF Reads

\* The first n characters of the string are where they belong.
PlacedUpto(s, x, y, text, n) ==
  \A k \in 1 .. n :
    /\ text[k] # Ascii(10)
    /\ Screen!RowAt(y, text, k) \in Screen!Rows
    /\ Screen!ColumnAt(x, text, k) \in Screen!Columns
    => s[Screen!RowAt(y, text, k)][Screen!ColumnAt(x, text, k)] = text[k]

\* A string all of whose characters are where they belong is in place.
LEMMA PlacedIsInPlace ==
  ASSUME NEW s, NEW x, NEW y, NEW text \in Strings,
         PlacedUpto(s, x, y, text, Len(text))
  PROVE  Screen!InPlace(s, x, y, text)
<1>1. DOMAIN text = 1 .. Len(text) /\ \A n \in 1 .. Len(text) : text[n] \in [code : Nat]
  <2>1. PICK T : T = [code : Nat]
    OBVIOUS
  <2>2. text \in Seq(T)
    BY <2>1 DEF Strings
  <2>3. DOMAIN text = 1 .. Len(text) /\ \A n \in 1 .. Len(text) : text[n] \in T
    BY <2>2
  <2> QED
    BY <2>1, <2>3
<1>2. SUFFICES ASSUME NEW n \in DOMAIN text, text[n] # Ascii(10),
                      Screen!RowAt(y, text, n) \in Screen!Rows,
                      Screen!ColumnAt(x, text, n) \in Screen!Columns
               PROVE  s[Screen!RowAt(y, text, n)][Screen!ColumnAt(x, text, n)]
                        = Screen!Glyph(text[n])
  BY DEF Screen!InPlace
<1>3. n \in 1 .. Len(text)
  BY <1>1
<1>4. Screen!Glyph(text[n]) = text[n]
  BY <1>1, <1>3, GlyphIs
<1> QED
  BY <1>2, <1>3, <1>4 DEF PlacedUpto

\* A set of positions that is not empty has a last one.
LEMMA LastOfIs ==
  ASSUME NEW n \in Nat, NEW S, S \subseteq 1 .. (n - 1), S # {}
  PROVE  Screen!LastOf(S) \in S /\ \A m \in S : m <= Screen!LastOf(S)
<1> DEFINE D == {n - k : k \in S}
<1>1. D \subseteq Nat /\ D # {}
  OBVIOUS
<1>2. PICK d \in D : \A e \in D : d <= e
  <2> HIDE DEF D
  <2> QED
    BY <1>1, LeastNumber
<1>3. PICK k \in S : d = n - k
  OBVIOUS
<1>4. ASSUME NEW m \in S PROVE m <= k
  <2>1. n - m \in D /\ m \in Int /\ k \in Int
    OBVIOUS
  <2>2. d <= n - m
    BY <1>2, <2>1
  <2> QED
    BY <1>3, <2>1, <2>2
<1> QED
  BY <1>4 DEF Screen!LastOf

\* The screen counts as the theorems about finite sets do.
LEMMA PlaceIs ==
  ASSUME NEW x, NEW y, NEW text, NEW n
  PROVE  /\ Screen!RowAt(y, text, n) = y + Cardinality(Screen!BreaksBefore(text, n))
         /\ Screen!ColumnAt(x, text, n)
              = IF Screen!BreaksBefore(text, n) = {} THEN x + n - 1
                ELSE n - 1 - Screen!LastOf(Screen!BreaksBefore(text, n))
<1>1. ASSUME NEW S PROVE Screen!Cardinality(S) = Cardinality(S)
  BY Zenon DEF Screen!Cardinality, Cardinality
<1>2. Screen!RowAt(y, text, n) = y + Screen!Cardinality(Screen!BreaksBefore(text, n))
  BY Zenon DEF Screen!RowAt
<1>3. Screen!ColumnAt(x, text, n)
        = IF Screen!BreaksBefore(text, n) = {} THEN x + n - 1
          ELSE n - 1 - Screen!LastOf(Screen!BreaksBefore(text, n))
  BY Zenon DEF Screen!ColumnAt
<1> QED
  BY <1>1, <1>2, <1>3

\* Behind a new line the next character begins the next row; behind another
\* one it is in the next column.
Follows(y, text, n) ==
  /\ text[n] = Ascii(10) =>
       /\ Screen!RowAt(y, text, n + 1) = Screen!RowAt(y, text, n) + 1
       /\ Screen!ColumnAt(0, text, n + 1) = 0
  /\ text[n] # Ascii(10) =>
       /\ Screen!RowAt(y, text, n + 1) = Screen!RowAt(y, text, n)
       /\ Screen!ColumnAt(0, text, n + 1) = Screen!ColumnAt(0, text, n) + 1

\* Each character has a place, and it follows the one before.
LEMMA NextPlace ==
  ASSUME NEW y \in Nat, NEW text, NEW n \in Nat \ {0}
  PROVE  /\ Screen!RowAt(y, text, n) \in Nat /\ Screen!RowAt(y, text, n) >= y
         /\ Screen!ColumnAt(0, text, n) \in 0 .. n - 1
         /\ Follows(y, text, n)
<1> DEFINE B == Screen!BreaksBefore(text, n)
           C == Screen!BreaksBefore(text, n + 1)
<1>1. ASSUME NEW m \in Nat
      PROVE  /\ IsFiniteSet(Screen!BreaksBefore(text, m)) /\ Cardinality(Screen!BreaksBefore(text, m)) \in Nat
             /\ Screen!BreaksBefore(text, m) \subseteq 1 .. (m - 1)
  <2>1. IsFiniteSet(1 .. (m - 1)) /\ Screen!BreaksBefore(text, m) \in SUBSET (1 .. (m - 1))
    BY FS_Interval DEF Screen!BreaksBefore
  <2>2. IsFiniteSet(Screen!BreaksBefore(text, m))
    BY <2>1, FS_Subset
  <2> QED
    BY <2>1, <2>2, FS_CardinalityType
<1>2. ASSUME NEW S, S \subseteq 1 .. (n - 1), S # {}
      PROVE  Screen!LastOf(S) \in S
  BY <1>2, LastOfIs
<1>3. ASSUME NEW m PROVE /\ Screen!RowAt(y, text, m) = y + Cardinality(Screen!BreaksBefore(text, m))
                         /\ Screen!ColumnAt(0, text, m)
                              = IF Screen!BreaksBefore(text, m) = {} THEN 0 + m - 1
                                ELSE m - 1 - Screen!LastOf(Screen!BreaksBefore(text, m))
  BY PlaceIs
<1>4. B \subseteq 1 .. (n - 1) /\ IsFiniteSet(B) /\ Cardinality(B) \in Nat
  BY <1>1
<1>5. /\ text[n] = Ascii(10) => C = B \cup {n}
      /\ text[n] # Ascii(10) => C = B
      /\ n \notin B
  BY DEF Screen!BreaksBefore
<1> HIDE DEF B, C
<1>6. Screen!RowAt(y, text, n) = y + Cardinality(B) /\ Screen!RowAt(y, text, n + 1) = y + Cardinality(C)
  BY <1>3 DEF B, C
<1>7. /\ Screen!ColumnAt(0, text, n) = IF B = {} THEN n - 1 ELSE n - 1 - Screen!LastOf(B)
      /\ Screen!ColumnAt(0, text, n + 1) = IF C = {} THEN n ELSE n - Screen!LastOf(C)
  <2>1. 0 + n - 1 = n - 1 /\ 0 + (n + 1) - 1 = n /\ (n + 1) - 1 = n
    OBVIOUS
  <2>2. Screen!ColumnAt(0, text, n) = IF B = {} THEN 0 + n - 1 ELSE n - 1 - Screen!LastOf(B)
    BY <1>3 DEF B
  <2>3. Screen!ColumnAt(0, text, n + 1)
          = IF C = {} THEN 0 + (n + 1) - 1 ELSE (n + 1) - 1 - Screen!LastOf(C)
    BY <1>3 DEF C
  <2> QED
    BY <2>1, <2>2, <2>3
<1>8. B # {} => Screen!LastOf(B) \in 1 .. (n - 1)
  <2> QED
    BY <1>2, <1>4
<1>9. Screen!ColumnAt(0, text, n) \in 0 .. n - 1
  <2> QED
    BY <1>7, <1>8
<1>10. ASSUME text[n] = Ascii(10)
       PROVE  /\ Screen!RowAt(y, text, n + 1) = Screen!RowAt(y, text, n) + 1
              /\ Screen!ColumnAt(0, text, n + 1) = 0
  <2>1. C = B \cup {n} /\ Cardinality(C) = Cardinality(B) + 1
    BY <1>4, <1>5, <1>10, FS_AddElement
  <2>2. Screen!LastOf(C) = n
    <3>1. C \subseteq 1 .. ((n + 1) - 1) /\ n \in C
      BY <1>4, <2>1
    <3>2. Screen!LastOf(C) \in C /\ \A m \in C : m <= Screen!LastOf(C)
      <4>1. n + 1 \in Nat /\ C # {}
        BY <3>1
      <4> QED
        BY <3>1, <4>1, LastOfIs
    <3>3. PICK c : c = Screen!LastOf(C)
      OBVIOUS
    <3>4. c \in C /\ n <= c
      BY <3>1, <3>2, <3>3
    <3>5. (n + 1) - 1 = n
      OBVIOUS
    <3>6. c \in 1 .. n
      BY <3>1, <3>4, <3>5
    <3>7. c = n
      BY <3>4, <3>6
    <3> QED
      BY <3>3, <3>7
  <2>3. C # {}
    BY <2>1
  <2> QED
    BY <1>4, <1>6, <1>7, <2>1, <2>2, <2>3
<1>11. ASSUME text[n] # Ascii(10)
       PROVE  /\ Screen!RowAt(y, text, n + 1) = Screen!RowAt(y, text, n)
              /\ Screen!ColumnAt(0, text, n + 1) = Screen!ColumnAt(0, text, n) + 1
  <2>1. C = B
    BY <1>5, <1>11
  <2> QED
    BY <1>6, <1>7, <1>8, <2>1
<1>12. Screen!RowAt(y, text, n) \in Nat /\ Screen!RowAt(y, text, n) >= y
  BY <1>4, <1>6
<1>13. Follows(y, text, n)
  BY <1>10, <1>11 DEF Follows
<1> QED
  BY <1>9, <1>12, <1>13

\* The first character is at the string's beginning.
LEMMA FirstPlace ==
  ASSUME NEW y \in Nat, NEW text
  PROVE  Screen!RowAt(y, text, 1) = y /\ Screen!ColumnAt(0, text, 1) = 0
<1>1. Screen!BreaksBefore(text, 1) = {}
  BY DEF Screen!BreaksBefore
<1>2. Cardinality({}) = 0
  BY FS_EmptySet
<1> QED
  BY <1>1, <1>2, PlaceIs

\* No two characters are in one place.
LEMMA PlacesDiffer ==
  ASSUME NEW y \in Nat, NEW text, NEW n \in Nat \ {0}, NEW k \in 1 .. n - 1,
         Screen!RowAt(y, text, k) = Screen!RowAt(y, text, n)
  PROVE  Screen!ColumnAt(0, text, k) # Screen!ColumnAt(0, text, n)
<1> DEFINE B == Screen!BreaksBefore(text, k)
           C == Screen!BreaksBefore(text, n)
<1>1. C \subseteq 1 .. (n - 1) /\ B \subseteq C
  BY DEF Screen!BreaksBefore
<1>2. IsFiniteSet(C)
  <2>1. IsFiniteSet(1 .. (n - 1)) /\ C \in SUBSET (1 .. (n - 1))
    BY <1>1, FS_Interval
  <2> HIDE DEF C
  <2> QED
    BY <2>1, FS_Subset
<1>3. IsFiniteSet(B)
  <2> HIDE DEF B, C
  <2> QED
    BY <1>1, <1>2, FS_Subset
<1>4. Cardinality(B) = Cardinality(C)
  <2>1. Cardinality(B) \in Nat /\ Cardinality(C) \in Nat
    BY <1>2, <1>3, FS_CardinalityType
  <2>2. y + Cardinality(B) = y + Cardinality(C)
    <3>1. Screen!RowAt(y, text, k) = y + Cardinality(B)
      BY PlaceIs
    <3>2. Screen!RowAt(y, text, n) = y + Cardinality(C)
      BY PlaceIs
    <3> HIDE DEF B, C
    <3> QED
      BY <3>1, <3>2
  <2> HIDE DEF B, C
  <2> QED
    BY <2>1, <2>2
<1>5. B = C
  <2> HIDE DEF B, C
  <2> QED
    BY <1>1, <1>2, <1>4, FS_Subset
<1>6. Screen!ColumnAt(0, text, k) = IF B = {} THEN 0 + k - 1 ELSE k - 1 - Screen!LastOf(B)
  BY Zenon DEF Screen!ColumnAt
<1>7. Screen!ColumnAt(0, text, n) = IF B = {} THEN 0 + n - 1 ELSE n - 1 - Screen!LastOf(B)
  <2>1. Screen!ColumnAt(0, text, n) = IF C = {} THEN 0 + n - 1
                               ELSE n - 1 - Screen!LastOf(C)
    BY Zenon DEF Screen!ColumnAt
  <2> HIDE DEF B, C
  <2> QED
    BY <1>5, <2>1
<1>8. k \in Nat /\ n \in Nat /\ k < n
  OBVIOUS
<1>9. Screen!ColumnAt(0, text, k) \in Int /\ Screen!ColumnAt(0, text, n) \in Int
  BY <1>8, NextPlace
<1> HIDE DEF B, C
<1>10. CASE B = {}
  BY <1>6, <1>7, <1>8, <1>10
<1>11. CASE B # {}
  <2>1. Screen!LastOf(B) \in Int
    <3>1. Screen!LastOf(B) \in B
      BY <1>1, <1>8, <1>11, LastOfIs
    <3> QED
      <4>1. PICK c : c = Screen!LastOf(B)
        OBVIOUS
      <4>2. c \in B
        BY <3>1, <4>1
      <4>3. c \in 1 .. (n - 1)
        BY <1>1, <4>2
      <4> QED
        BY <4>1, <4>3
  <2> QED
    BY <1>6, <1>7, <1>8, <1>11, <2>1
<1> QED
  BY <1>10, <1>11

-----------------------------------------------------------------------------
(* The types of the screen and of the strings being printed *)

\* A call of prints, with what is left of its string.
Jobs == [x : Nat, y : Nat, text : Strings]

\* The types of the console and of what _start still has to print.
ScreenInv ==
  /\ screen \in Screens
  /\ jobs \in Seq(Jobs) /\ Len(jobs) <= 2
  /\ pc \in {"mouse", "print", "idle"}
  /\ pc = "print" => jobs # <<>>
  /\ pc = "mouse" => result = None
  /\ result = None \/ result \in [number : Results, image : Images]

\* The texts are strings, and so are the digits of the numbers.
LEMMA TextTypes ==
  /\ Message \in Strings /\ PanicText \in Strings /\ Reason \in Strings
  /\ \A image \in Images : image \in Strings
  /\ \A v \in Results \cup ErrorCodes \cup Addresses :
       v \in Nat /\ Hex(v) \in Strings /\ Len(Hex(v)) <= Width
       /\ Len(Hex(v)) <= Screen!fb_width
<1>1. /\ Message \in Strings /\ PanicText \in Strings /\ Reason \in Strings
      /\ \A image \in Images : image \in Strings
  BY TextsAssumption DEF Strings
<1>2. ASSUME NEW v \in Results \cup ErrorCodes \cup Addresses
      PROVE  v \in Nat /\ Hex(v) \in Strings /\ Len(Hex(v)) <= Width
             /\ Len(Hex(v)) <= Screen!fb_width
  <2>1. v \in Nat /\ Len(Hex(v)) <= Width
    BY KeysAssumption, TextsAssumption
  <2>2. Hex(v) \in Strings
    BY <2>1, HexIs
  <2>3. Len(Hex(v)) \in Nat
    BY <2>2 DEF Strings
  <2>4. Width <= Width * CellWidth /\ Width * CellWidth \in Nat /\ Width \in Nat
    <3>1. PICK d \in Nat : CellWidth = 1 + d
      <4>1. CellWidth - 1 \in Nat /\ CellWidth = 1 + (CellWidth - 1)
        BY KeysAssumption
      <4> QED
        BY <4>1
    <3>2. Width \in Nat /\ Width * CellWidth = Width + Width * d /\ Width * d \in Nat
      BY <3>1, KeysAssumption
    <3> QED
      BY <3>2
  <2>5. Len(Hex(v)) <= Screen!fb_width
    BY <2>1, <2>3, <2>4 DEF Screen!fb_width
  <2> QED
    BY <2>1, <2>2, <2>5
<1> QED
  BY <1>1, <1>2

\* A round of printing keeps the types.
LEMMA RoundType ==
  ASSUME NEW s \in Screens, NEW job \in Jobs, job.text # <<>>
  PROVE  Screen!Shown(s, job) \in Screens /\ Screen!NextJob(job) \in Jobs
<1>1. PICK T : T = [code : Nat]
  OBVIOUS
<1>2. job.x \in Nat /\ job.y \in Nat /\ job.text \in Seq(T)
  BY <1>1 DEF Jobs, Strings
<1>3. Head(job.text) \in T /\ Tail(job.text) \in Seq(T)
  BY <1>2
<1>4. Screen!Glyph(Head(job.text)) \in Cells
  BY <1>1, <1>3, GlyphIs DEF Cells
<1>5. Screen!Shown(s, job) \in Screens
  BY <1>4, PrintcIs DEF Screen!Shown
<1>6. Screen!NextJob(job) \in Jobs
  BY <1>1, <1>2, <1>3 DEF Screen!NextJob, Screen!Job, Jobs, Strings
<1> QED
  BY <1>5, <1>6

\* A string's characters are its own glyphs.
LEMMA StringIs ==
  ASSUME NEW text \in Strings
  PROVE  /\ Len(text) \in Nat /\ DOMAIN text = 1 .. Len(text)
         /\ \A n \in 1 .. Len(text) :
              Screen!Glyph(text[n]) = text[n] /\ text[n] \in Cells
<1>1. PICK T : T = [code : Nat]
  OBVIOUS
<1>2. text \in Seq(T)
  BY <1>1 DEF Strings
<1>3. Len(text) \in Nat /\ DOMAIN text = 1 .. Len(text) /\ \A n \in 1 .. Len(text) : text[n] \in T
  BY <1>2
<1> QED
  BY <1>1, <1>3, GlyphIs DEF Cells

\* A row of characters is a screen.
LEMMA RowShowsType ==
  ASSUME NEW t \in Screens, NEW y, NEW text \in Strings
  PROVE  RowShows(t, y, text, Len(text)) \in Screens
<1>2. Len(text) \in Nat
  BY StringIs
<1>3. ASSUME NEW n \in 1 .. Len(text) PROVE Screen!Glyph(text[n]) \in Cells
  BY StringIs
<1>4. ASSUME NEW r \in Screen!Rows, NEW c \in Screen!Columns
      PROVE  (IF r = y /\ c < Len(text) THEN Screen!Glyph(text[c + 1]) ELSE t[r][c]) \in Cells
  <2>1. c \in Nat /\ (c < Len(text) => c + 1 \in 1 .. Len(text))
    BY <1>2, KeysAssumption DEF Screen!Columns
  <2>2. t[r][c] \in Cells
    BY DEF Screens
  <2> QED
    BY <1>3, <2>1, <2>2
<1> QED
  BY <1>4 DEF RowShows, Screens

\* A row shows its characters, whatever is printed into other rows.
LEMMA RowCells ==
  ASSUME NEW t, NEW y \in Screen!Rows, NEW text, NEW n, NEW c \in Screen!Columns
  PROVE  /\ c < n => RowShows(t, y, text, n)[y][c] = Screen!Glyph(text[c + 1])
BY DEF RowShows

\* The other rows stay as they are.
LEMMA OtherCells ==
  ASSUME NEW t, NEW y, NEW text, NEW n, NEW c \in Screen!Columns,
         NEW r \in Screen!Rows, r # y
  PROVE  RowShows(t, y, text, n)[r][c] = t[r][c]
BY DEF RowShows

\* What a page fault shows: each string in its row.
LEMMA PanicRowsIs ==
  ASSUME NEW s \in Screens, s = screen, NEW code \in ErrorCodes, NEW address \in Addresses
  PROVE  /\ PanicRows(code, address) \in Screens
         /\ \A c \in Screen!Columns :
              /\ c < Len(Hex(code)) =>
                   PanicRows(code, address)[2][c] = Screen!Glyph(Hex(code)[c + 1])
              /\ c < Len(Hex(address)) =>
                   PanicRows(code, address)[3][c] = Screen!Glyph(Hex(address)[c + 1])
              /\ c < Len(PanicText) =>
                   PanicRows(code, address)[0][c] = Screen!Glyph(PanicText[c + 1])
              /\ c < Len(Reason) =>
                   PanicRows(code, address)[1][c] = Screen!Glyph(Reason[c + 1])
<1>2. /\ Hex(code) \in Strings /\ Len(Hex(code)) <= Screen!fb_width
      /\ Hex(address) \in Strings /\ Len(Hex(address)) <= Screen!fb_width
      /\ code \in Nat /\ address \in Nat
  BY TextTypes
<1>3. /\ \A n \in DOMAIN Hex(code) : Hex(code)[n] # Ascii(10)
      /\ \A n \in DOMAIN Hex(address) : Hex(address)[n] # Ascii(10)
  BY <1>2, HexIs
<1>4. /\ Len(PanicText) <= Screen!fb_width /\ Len(Reason) <= Screen!fb_width
      /\ \A n \in DOMAIN PanicText : PanicText[n] # Ascii(10)
      /\ \A n \in DOMAIN Reason : Reason[n] # Ascii(10)
  BY TextsAssumption
<1> DEFINE a == RowShows(s, 2, Hex(code), Len(Hex(code)))
           b == RowShows(a, 3, Hex(address), Len(Hex(address)))
           c == RowShows(b, 0, PanicText, Len(PanicText))
           d == RowShows(c, 1, Reason, Len(Reason))
<1>5. a \in Screens /\ a = Screen!prints(s, 0, 2, Hex(code))
  BY <1>2, <1>3, PrintsRow, RowShowsType
<1> HIDE DEF a
<1>6. b \in Screens /\ b = Screen!prints(a, 0, 3, Hex(address))
  BY <1>2, <1>3, <1>5, PrintsRow, RowShowsType
<1> HIDE DEF b
<1>7. c \in Screens /\ c = Screen!prints(b, 0, 0, PanicText)
  BY <1>4, <1>6, TextTypes, PrintsRow, RowShowsType
<1> HIDE DEF c
<1>8. d \in Screens /\ d = Screen!prints(c, 0, 1, Reason)
  BY <1>4, <1>7, TextTypes, PrintsRow, RowShowsType
<1> HIDE DEF d
<1>9. PanicRows(code, address) = d
  BY <1>5, <1>6, <1>7, <1>8 DEF PanicRows
<1>10. 0 \in Screen!Rows /\ 1 \in Screen!Rows /\ 2 \in Screen!Rows /\ 3 \in Screen!Rows
  BY KeysAssumption DEF Screen!Rows
<1>11. ASSUME NEW k \in Screen!Columns
       PROVE  /\ k < Len(Hex(code)) => d[2][k] = Screen!Glyph(Hex(code)[k + 1])
              /\ k < Len(Hex(address)) => d[3][k] = Screen!Glyph(Hex(address)[k + 1])
              /\ k < Len(PanicText) => d[0][k] = Screen!Glyph(PanicText[k + 1])
              /\ k < Len(Reason) => d[1][k] = Screen!Glyph(Reason[k + 1])
  <2>1. k < Len(Reason) => d[1][k] = Screen!Glyph(Reason[k + 1])
    BY <1>10, RowCells DEF d
  <2>2. d[0][k] = c[0][k] /\ d[2][k] = c[2][k] /\ d[3][k] = c[3][k]
    <3>1. d[0][k] = c[0][k]
      BY <1>10, OtherCells DEF d
    <3>2. d[2][k] = c[2][k]
      BY <1>10, OtherCells DEF d
    <3>3. d[3][k] = c[3][k]
      BY <1>10, OtherCells DEF d
    <3> QED
      BY <3>1, <3>2, <3>3
  <2>3. k < Len(PanicText) => c[0][k] = Screen!Glyph(PanicText[k + 1])
    BY <1>10, RowCells DEF c
  <2>4. c[2][k] = b[2][k] /\ c[3][k] = b[3][k]
    <3>1. c[2][k] = b[2][k]
      BY <1>10, OtherCells DEF c
    <3>2. c[3][k] = b[3][k]
      BY <1>10, OtherCells DEF c
    <3> QED
      BY <3>1, <3>2
  <2>5. k < Len(Hex(address)) => b[3][k] = Screen!Glyph(Hex(address)[k + 1])
    BY <1>10, RowCells DEF b
  <2>6. b[2][k] = a[2][k]
    BY <1>10, OtherCells DEF b
  <2>7. k < Len(Hex(code)) => a[2][k] = Screen!Glyph(Hex(code)[k + 1])
    BY <1>10, RowCells DEF a
  <2> QED
    BY <2>1, <2>2, <2>3, <2>4, <2>5, <2>6, <2>7
<1> QED
  BY <1>8, <1>9, <1>11

\* A string of one line that shows in its row is in place.
LEMMA RowInPlace ==
  ASSUME NEW s, NEW y \in Nat, NEW text \in Strings,
         \A n \in DOMAIN text : text[n] # Ascii(10),
         \A c \in Screen!Columns : c < Len(text) => s[y][c] = Screen!Glyph(text[c + 1])
  PROVE  Screen!InPlace(s, 0, y, text)
<1>1. DOMAIN text = 1 .. Len(text) /\ Len(text) \in Nat
  BY DEF Strings
<1>2. ASSUME NEW n \in 1 .. Len(text)
      PROVE  Screen!RowAt(y, text, n) = y /\ Screen!ColumnAt(0, text, n) = n - 1
  <2>1. \A k \in 1 .. (n - 1) : k \in 1 .. Len(text)
    BY <1>1
  <2>2. Screen!BreaksBefore(text, n) = {}
    BY <1>1, <2>1 DEF Screen!BreaksBefore
  <2>3. Cardinality({}) = 0
    BY FS_EmptySet
  <2>4. 0 + n - 1 = n - 1 /\ y + 0 = y
    OBVIOUS
  <2>5. Screen!RowAt(y, text, n) = y
    BY <2>2, <2>3, <2>4, PlaceIs
  <2>6. Screen!ColumnAt(0, text, n) = n - 1
    BY <2>2, <2>4, PlaceIs
  <2> QED
    BY <2>5, <2>6
<1>3. ASSUME NEW n \in 1 .. Len(text), n - 1 \in Screen!Columns
      PROVE  s[y][n - 1] = Screen!Glyph(text[n])
  <2>1. n - 1 < Len(text) /\ (n - 1) + 1 = n
    BY <1>1
  <2> QED
    BY <1>3, <2>1
<1> QED
  BY <1>1, <1>2, <1>3 DEF Screen!InPlace

\* A row that shows a number's digits reads the number.
LEMMA DigitsRead ==
  ASSUME NEW v \in Nat, NEW row, Len(Hex(v)) <= Width,
         \A c \in Screen!Columns : c < Len(Hex(v)) => row[c] = Screen!Glyph(Hex(v)[c + 1])
  PROVE  Reads(row, v)
<1>2. /\ Len(Hex(v)) \in Nat
      /\ \A k \in 1 .. Len(Hex(v)) : Screen!Glyph(Hex(v)[k]) = Hex(v)[k]
  BY HexIs, StringIs
<1>3. ASSUME NEW k \in 1 .. Len(Hex(v)) PROVE row[k - 1] = Hex(v)[k]
  <2>1. k - 1 \in Screen!Columns /\ k - 1 < Len(Hex(v)) /\ (k - 1) + 1 = k
    BY <1>2, KeysAssumption DEF Screen!Columns
  <2>2. row[k - 1] = Screen!Glyph(Hex(v)[k])
    BY <2>1
  <2> QED
    BY <1>2, <2>2
<1> QED
  BY <1>3, RowReads DEF Begins

-----------------------------------------------------------------------------

\* The boot starts with an empty screen and the message to print.
LEMMA ScreenInit == Init => ScreenInv
<1> SUFFICES ASSUME Init PROVE ScreenInv
  OBVIOUS
<1>1. Screen!Empty \in Screens
  <2>1. Char(57, FALSE) \in [key : 0 .. 58, upper : BOOLEAN]
    BY DEF Char
  <2> QED
    BY <2>1 DEF Screen!Empty, Screens, Cells
<1>2. jobs = <<>> /\ Len(jobs) = 0 /\ jobs \in Seq(Jobs)
  BY DEF Init
<1> QED
  BY <1>1, <1>2 DEF Init, ScreenInv

\* The handler draws a key's character, or the space, in the top row.
LEMMA HandlerDraws ==
  ASSUME TypeInv, ScreenInv, _keyboard_int
  PROVE  /\ screen' \in Screens
         /\ \A r \in Screen!Rows, c \in Screen!Columns : r # 0 => screen'[r][c] = screen[r][c]
<1>1. ASSUME NEW ch \in [key : 0 .. 58, upper : BOOLEAN], NEW x,
             screen' = Screen!printc(screen, x, 0, ch)
      PROVE  /\ screen' \in Screens
             /\ \A r \in Screen!Rows, c \in Screen!Columns :
                  r # 0 => screen'[r][c] = screen[r][c]
  <2>1. PICK s : s = screen
    OBVIOUS
  <2>2. s \in Screens /\ Screen!Glyph(ch) \in Cells
    BY <2>1, GlyphIs DEF ScreenInv
  <2>3. /\ Screen!printc(s, x, 0, ch) \in Screens
        /\ \A r \in Screen!Rows, c \in Screen!Columns :
             Screen!printc(s, x, 0, ch)[r][c]
               = IF r = 0 /\ c = x THEN Screen!Glyph(ch) ELSE s[r][c]
    BY <2>2, PrintcIs
  <2> QED
    BY <1>1, <2>1, <2>3
<1>2. CASE screen' = screen
  BY <1>2 DEF ScreenInv
<1>3. CASE screen' # screen
  <2>1. keyboard_int(Code, Upper) /\ ~Ignored
    BY <1>3 DEF _keyboard_int, console
  <2>2. Code \in ScanCodes /\ Upper \in BOOLEAN
    <3>1. codes # <<>> /\ codes \in Seq(ScanCodes)
      BY DEF _keyboard_int, TypeInv
    <3>2. Code \in ScanCodes
      BY <3>1 DEF Code
    <3>3. Upper \in BOOLEAN
      BY DEF Upper
    <3> QED
      BY <3>2, <3>3
  <2>3. Code \in 0 .. 58
    BY <2>1, <2>2, Numbers DEF Ignored, Lock
  <2>4. CASE Code # Backspace
    <3>1. screen' = Screen!printc(screen, xytest, 0, Char(Code, Upper))
      BY <2>1, <2>4 DEF keyboard_int
    <3>2. PICK ch, x : ch = Char(Code, Upper) /\ x = xytest
      OBVIOUS
    <3>3. ch \in [key : 0 .. 58, upper : BOOLEAN]
      BY <2>2, <2>3, <3>2 DEF Char
    <3> QED
      BY <1>1, <3>1, <3>2, <3>3
  <2>5. CASE Code = Backspace
    <3>1. screen' = Screen!printc(screen, xytest', 0, Char(57, FALSE))
      BY <1>3, <2>1, <2>5 DEF keyboard_int, console
    <3>2. PICK ch, x : ch = Char(57, FALSE) /\ x = xytest'
      OBVIOUS
    <3>3. ch \in [key : 0 .. 58, upper : BOOLEAN]
      BY <3>2 DEF Char
    <3> QED
      BY <1>1, <3>1, <3>2, <3>3
  <2> QED
    BY <2>4, <2>5
<1> QED
  BY <1>2, <1>3

\* Every step keeps the types of the screen and of the strings.
LEMMA ScreenStep == TypeInv /\ ScreenInv /\ [Next]_vars => ScreenInv'
<1> SUFFICES ASSUME TypeInv, ScreenInv, [Next]_vars PROVE ScreenInv'
  OBVIOUS
<1>1. ASSUME UNCHANGED <<screen, start>> PROVE ScreenInv'
  BY <1>1 DEF ScreenInv, start
<1>2. ASSUME NEW key \in Keys, Press(key) \/ Repeat(key) \/ Release(key) PROVE ScreenInv'
  BY <1>1, <1>2 DEF Press, Repeat, Release, console
<1>3. CASE _keyboard_int
  <2>1. UNCHANGED start /\ screen' \in Screens
    BY <1>3, HandlerDraws DEF _keyboard_int
  <2> QED
    BY <2>1 DEF ScreenInv, start
<1>4. CASE Steal
  BY <1>1, <1>4 DEF Steal, console
<1>5. CASE init_mouse
  <2>1. Screen!Job(0, 0, Message) \in Jobs
    BY TextTypes DEF Screen!Job, Jobs
  <2>2. jobs' \in Seq(Jobs) /\ Len(jobs') = 1 /\ jobs' # <<>>
    BY <1>5, <2>1 DEF init_mouse
  <2> QED
    BY <1>5, <2>2 DEF init_mouse, ScreenInv, console
<1>6. CASE PrintChar
  <2>1. jobs # <<>> /\ jobs \in Seq(Jobs) /\ Head(jobs) = jobs[1] /\ Len(jobs) \in 1 .. 2
    <3>1. jobs # <<>> /\ jobs \in Seq(Jobs) /\ Len(jobs) <= 2
      BY <1>6 DEF PrintChar, ScreenInv
    <3>2. Len(jobs) \in Nat /\ Len(jobs) # 0
      BY <3>1
    <3>3. Len(jobs) \in 1 .. 2
      <4>1. PICK n : n = Len(jobs)
        OBVIOUS
      <4>2. n \in Nat /\ n # 0 /\ n <= 2
        BY <3>1, <3>2, <4>1
      <4>3. n \in 1 .. 2
        BY <4>2
      <4> QED
        BY <4>1, <4>3
    <3>4. Head(jobs) = jobs[1]
      BY <3>1
    <3> QED
      BY <3>1, <3>3, <3>4
  <2>2. PICK s, job : s = screen /\ job = jobs[1]
    OBVIOUS
  <2>3. s \in Screens /\ job \in Jobs /\ job.text # <<>>
    BY <1>6, <2>1, <2>2 DEF PrintChar, ScreenInv
  <2>4. Screen!Shown(s, job) \in Screens /\ Screen!NextJob(job) \in Jobs
    BY <2>3, RoundType
  <2>5. screen' \in Screens
    BY <1>6, <2>1, <2>2, <2>4 DEF PrintChar
  <2>6. jobs' \in Seq(Jobs) /\ Len(jobs') = Len(jobs)
    BY <1>6, <2>1, <2>2, <2>4 DEF PrintChar
  <2>7. jobs' # <<>>
    BY <2>1, <2>6
  <2>8. pc' = pc /\ result' = result
    BY <1>6 DEF PrintChar
  <2> QED
    BY <2>1, <2>5, <2>6, <2>7, <2>8 DEF ScreenInv
<1>7. CASE run_elf
  <2>1. PICK r \in Results, image \in Images :
          /\ result' = [number |-> r, image |-> image]
          /\ jobs' = <<Screen!Job(0, 2, Hex(r)), Screen!Job(0, 3, image)>>
    BY <1>7 DEF run_elf
  <2>2. Screen!Job(0, 2, Hex(r)) \in Jobs /\ Screen!Job(0, 3, image) \in Jobs
    BY TextTypes DEF Screen!Job, Jobs
  <2>3. jobs' \in Seq(Jobs) /\ Len(jobs') = 2 /\ jobs' # <<>>
    BY <2>1, <2>2
  <2>4. result' \in [number : Results, image : Images]
    BY <2>1
  <2> QED
    BY <1>7, <2>3, <2>4 DEF run_elf, ScreenInv, console
<1>8. CASE NextString
  <2>1. jobs # <<>> /\ jobs' = Tail(jobs)
    BY <1>8 DEF NextString, ScreenInv
  <2>2. jobs' \in Seq(Jobs) /\ Len(jobs') <= 2
    BY <2>1 DEF ScreenInv
  <2>3. pc' \in {"mouse", "print", "idle"} /\ (pc' = "print" => jobs' # <<>>) /\ pc' # "mouse"
    BY <1>8 DEF NextString
  <2> QED
    BY <1>8, <2>2, <2>3 DEF NextString, ScreenInv, console
<1>9. ASSUME NEW code \in ErrorCodes, NEW address \in Addresses, PageFault(code, address)
      PROVE  ScreenInv'
  <2>1. PanicRows(code, address) \in Screens
    BY PanicRowsIs DEF ScreenInv
  <2> QED
    BY <1>9, <2>1 DEF PageFault, ScreenInv, start
<1>10. CASE UNCHANGED vars
  BY <1>1, <1>10 DEF vars, console
<1> QED
  BY <1>2, <1>3, <1>4, <1>5, <1>6, <1>7, <1>8, <1>9, <1>10 DEF Next

\* The variables have their types, whatever the size of the screen.
THEOREM TypeCorrect == Spec => []TypeOK
<1>1. TypeInv /\ ScreenInv => TypeOK
  <2> SUFFICES ASSUME TypeInv, ScreenInv PROVE TypeOK
    OBVIOUS
  <2>1. \A n \in DOMAIN codes : codes[n] \in Keys \cup {Break(k) : k \in Keys}
    BY DEF TypeInv, ScanCodes
  <2>2. {isShift, isCtrl, isAlt, isLock, lost, overprinted, capsOn} \subseteq BOOLEAN
    BY Zenon DEF TypeInv
  <2>3. DOMAIN screen = Screen!Rows
    BY DEF ScreenInv, Screens
  <2>4. ASSUME NEW y \in Screen!Rows
        PROVE  /\ DOMAIN screen[y] = Screen!Columns
               /\ \A x \in Screen!Columns :
                    "key" \in DOMAIN screen[y][x] => screen[y][x].key \in 0 .. Lock
    <3>1. screen[y] \in [Screen!Columns -> Cells]
      BY DEF ScreenInv, Screens
    <3>2. ASSUME NEW cell \in Cells, "key" \in DOMAIN cell PROVE cell.key \in 0 .. Lock
      <4>1. CASE cell \in [code : Nat]
        BY <3>2, <4>1
      <4>2. CASE cell \in [key : 0 .. 58, upper : BOOLEAN]
        BY <4>2 DEF Lock
      <4>3. CASE cell = [junk |-> TRUE]
        BY <3>2, <4>3
      <4> QED
        BY <4>1, <4>2, <4>3 DEF Cells
    <3> QED
      BY <3>1, <3>2
  <2>5. xytest \in Nat /\ pc \in {"mouse", "print", "idle"} /\ Len(jobs) <= 2 /\ down \subseteq Keys
    BY DEF TypeInv, ScreenInv
  <2> QED
    BY <2>1, <2>2, <2>3, <2>4, <2>5 DEF TypeOK
<1>2. TypeInv /\ ScreenInv /\ [Next]_vars => TypeInv' /\ ScreenInv'
  BY TypeStep, ScreenStep
<1> QED
  BY <1>1, <1>2, TypeInit, ScreenInit, PTL DEF Spec

-----------------------------------------------------------------------------
(* The panic *)

\* A page fault at any time, whatever the screen shows, leaves a screen from
\* which its error code and its address can be read, below the message and the
\* reason, and that screen stays.
THEOREM PanicIsShownCorrect == Spec => []PanicIsShown
<1>1. Init => PanicIsShown
  BY DEF Init, PanicIsShown
<1>2. TypeInv /\ ScreenInv /\ PanicIsShown /\ [Next]_vars => PanicIsShown'
  <2> SUFFICES ASSUME TypeInv, ScreenInv, PanicIsShown, [Next]_vars PROVE PanicIsShown'
    OBVIOUS
  <2>1. ASSUME UNCHANGED <<screen, fault>> PROVE PanicIsShown'
    BY <2>1 DEF PanicIsShown
  <2>2. ASSUME NEW key \in Keys, Press(key) \/ Repeat(key) \/ Release(key)
        PROVE  PanicIsShown'
    BY <2>1, <2>2 DEF Press, Repeat, Release, console
  <2>3. ASSUME fault = None, fault' = fault PROVE PanicIsShown'
    BY <2>3 DEF PanicIsShown
  <2>4. CASE _keyboard_int \/ Steal \/ init_mouse \/ PrintChar \/ run_elf \/ NextString
    <3>1. fault = None
      BY <2>4 DEF _keyboard_int, Steal, init_mouse, PrintChar, run_elf, NextString
    <3>2. fault' = fault
      BY <2>4 DEF _keyboard_int, Steal, init_mouse, PrintChar, run_elf, NextString
    <3> QED
      BY <2>3, <3>1, <3>2
  <2>5. ASSUME NEW code \in ErrorCodes, NEW address \in Addresses, PageFault(code, address)
        PROVE  PanicIsShown'
    <3>1. screen' = PanicRows(code, address) /\ fault' = [code |-> code, address |-> address]
      BY <2>5 DEF PageFault
    <3>2. PICK s : s = PanicRows(code, address)
      OBVIOUS
    <3>3. \A c \in Screen!Columns :
            /\ c < Len(Hex(code)) => s[2][c] = Screen!Glyph(Hex(code)[c + 1])
            /\ c < Len(Hex(address)) => s[3][c] = Screen!Glyph(Hex(address)[c + 1])
            /\ c < Len(PanicText) => s[0][c] = Screen!Glyph(PanicText[c + 1])
            /\ c < Len(Reason) => s[1][c] = Screen!Glyph(Reason[c + 1])
      BY <3>2, PanicRowsIs DEF ScreenInv
    <3>4. Reads(s[2], code) /\ Reads(s[3], address)
      <4>1. code \in Nat /\ address \in Nat /\ Len(Hex(code)) <= Width
            /\ Len(Hex(address)) <= Width
        BY TextTypes
      <4>2. Reads(s[2], code)
        BY <3>3, <4>1, DigitsRead
      <4>3. Reads(s[3], address)
        BY <3>3, <4>1, DigitsRead
      <4> QED
        BY <4>2, <4>3
    <3>5. Screen!InPlace(s, 0, 0, PanicText) /\ Screen!InPlace(s, 0, 1, Reason)
      <4>1. /\ \A n \in DOMAIN PanicText : PanicText[n] # Ascii(10)
            /\ \A n \in DOMAIN Reason : Reason[n] # Ascii(10)
        BY TextsAssumption
      <4>2. Screen!InPlace(s, 0, 0, PanicText)
        BY <3>3, <4>1, TextTypes, RowInPlace
      <4>3. Screen!InPlace(s, 0, 1, Reason)
        BY <3>3, <4>1, TextTypes, RowInPlace
      <4> QED
        BY <4>2, <4>3
    <3>6. fault'.code = code /\ fault'.address = address
      BY <3>1
    <3> QED
      BY <3>1, <3>2, <3>4, <3>5, <3>6 DEF PanicIsShown
  <2>6. CASE UNCHANGED vars
    BY <2>1, <2>6 DEF vars, console
  <2> QED
    BY <2>2, <2>4, <2>5, <2>6 DEF Next
<1>3. /\ TypeInv /\ ScreenInv /\ [Next]_vars => TypeInv' /\ ScreenInv'
      /\ Init => TypeInv /\ ScreenInv
  BY TypeInit, TypeStep, ScreenInit, ScreenStep
<1> QED
  BY <1>1, <1>2, <1>3, PTL DEF Spec

-----------------------------------------------------------------------------
(* Any string, from the left edge *)

\* No line is longer than the screen is wide in pixels.
LinesFit(text) ==
  \A n \in 1 .. Len(text) :
    text[n] # Ascii(10) => Screen!ColumnAt(0, text, n) < Screen!fb_width

\* Character k of the string belongs in this cell.
Spot(y, text, k, r, c) ==
  /\ text[k] # Ascii(10)
  /\ r = Screen!RowAt(y, text, k) /\ c = Screen!ColumnAt(0, text, k)

\* The screen with the first n characters of the string where they belong.
TextShows(s, y, text, n) ==
  [r \in Screen!Rows |-> [c \in Screen!Columns |->
     IF \E k \in 1 .. n : Spot(y, text, k, r, c)
     THEN Screen!Glyph(text[CHOOSE k \in 1 .. n : Spot(y, text, k, r, c)])
     ELSE s[r][c]]]

\* What prints is about to do behind the first n characters.
JobAt(y, text, n) ==
  Screen!Job(Screen!ColumnAt(0, text, n + 1), Screen!RowAt(y, text, n + 1), Rest(text, n))

\* One character at most belongs in a cell.
LEMMA OneToASpot ==
  ASSUME NEW y \in Nat, NEW text, NEW r, NEW c,
         NEW j \in Nat \ {0}, NEW k \in Nat \ {0},
         Spot(y, text, j, r, c), Spot(y, text, k, r, c)
  PROVE  j = k
<1>1. /\ Screen!RowAt(y, text, j) = Screen!RowAt(y, text, k)
      /\ Screen!ColumnAt(0, text, j) = Screen!ColumnAt(0, text, k)
  BY DEF Spot
<1>2. j < k => j \in 1 .. k - 1
  OBVIOUS
<1>3. k < j => k \in 1 .. j - 1
  OBVIOUS
<1>4. ~(j < k)
  BY <1>1, <1>2, PlacesDiffer
<1>5. ~(k < j)
  BY <1>1, <1>3, PlacesDiffer
<1> QED
  BY <1>4, <1>5

\* The cell shows character k of the string.
Drawn(t, text, k, r, c) == t[r][c] = Screen!Glyph(text[k])

\* A cell in which a character belongs shows it.
LEMMA CellDrawn ==
  ASSUME NEW s, NEW y \in Nat, NEW text, NEW n \in Nat, NEW k \in 1 .. n,
         NEW r \in Screen!Rows, NEW c \in Screen!Columns, Spot(y, text, k, r, c)
  PROVE  Drawn(TextShows(s, y, text, n), text, k, r, c)
<1>1. PICK j : j = CHOOSE i \in 1 .. n : Spot(y, text, i, r, c)
  OBVIOUS
<1>2. j \in 1 .. n /\ Spot(y, text, j, r, c)
  BY <1>1
<1>3. j \in Nat \ {0} /\ k \in Nat \ {0}
  BY <1>2
<1>4. j = k
  BY <1>2, <1>3, OneToASpot
<1>5. TextShows(s, y, text, n)[r][c] = Screen!Glyph(text[j])
  BY <1>1 DEF TextShows
<1> QED
  BY <1>4, <1>5 DEF Drawn

\* A cell in which none does shows what it did.
LEMMA CellLeft ==
  ASSUME NEW s, NEW y \in Nat, NEW text, NEW n \in Nat,
         NEW r \in Screen!Rows, NEW c \in Screen!Columns,
         \A k \in 1 .. n : ~Spot(y, text, k, r, c)
  PROVE  TextShows(s, y, text, n)[r][c] = s[r][c]
BY DEF TextShows

\* One round of prints draws the next character where it belongs, or breaks the
\* line there.
LEMMA TextRound ==
  ASSUME NEW s, NEW y \in Nat, NEW text \in Strings, LinesFit(text),
         NEW n \in 0 .. Len(text) - 1
  PROVE  /\ Screen!Shown(TextShows(s, y, text, n), JobAt(y, text, n))
              = TextShows(s, y, text, n + 1)
         /\ Screen!NextJob(JobAt(y, text, n)) = JobAt(y, text, n + 1)
<1>1. Len(text) \in Nat
  BY StringIs
<1>2. PICK m : m = n + 1
  OBVIOUS
<1>3. m \in Nat \ {0} /\ m \in 1 .. Len(text) /\ n \in Nat
  BY <1>1, <1>2
<1>4. PICK x, z : x = Screen!ColumnAt(0, text, m) /\ z = Screen!RowAt(y, text, m)
  OBVIOUS
<1>5. /\ x \in Nat
      /\ text[m] = Ascii(10) => Screen!RowAt(y, text, m + 1) = z + 1
                                /\ Screen!ColumnAt(0, text, m + 1) = 0
      /\ text[m] # Ascii(10) => Screen!RowAt(y, text, m + 1) = z
                                /\ Screen!ColumnAt(0, text, m + 1) = x + 1
  <2>1. m \in Nat \ {0}
    BY <1>3
  <2>2. Screen!ColumnAt(0, text, m) \in 0 .. m - 1
    BY <2>1, NextPlace
  <2>3. Follows(y, text, m)
    BY <2>1, NextPlace
  <2> QED
    BY <1>4, <2>2, <2>3 DEF Follows
<1>6. PICK job : job = JobAt(y, text, n)
  OBVIOUS
<1>7. job = Screen!Job(x, z, Rest(text, n))
  BY <1>2, <1>4, <1>6 DEF JobAt
<1>8. Head(Rest(text, n)) = text[m] /\ Tail(Rest(text, n)) = Rest(text, m)
  BY <1>2, RestIs DEF Strings
<1>9. PICK a, b : a = TextShows(s, y, text, n) /\ b = TextShows(s, y, text, m)
  OBVIOUS
<1>10. \A k \in 1 .. m : k = m \/ k \in 1 .. n
  BY <1>2, <1>3
<1>11. \A k \in 1 .. n : k \in 1 .. m /\ k # m
  BY <1>2, <1>3
<1>12. ASSUME NEW r \in Screen!Rows, NEW c \in Screen!Columns, ~Spot(y, text, m, r, c)
       PROVE  b[r][c] = a[r][c]
  <2>1. CASE \E k \in 1 .. n : Spot(y, text, k, r, c)
    <3>1. PICK k \in 1 .. n : Spot(y, text, k, r, c)
      BY <2>1
    <3>2. Drawn(a, text, k, r, c)
      BY <1>3, <1>9, <3>1, CellDrawn
    <3>3. Drawn(b, text, k, r, c)
      BY <1>3, <1>9, <1>11, <3>1, CellDrawn
    <3> QED
      BY <3>2, <3>3 DEF Drawn
  <2>2. CASE \A k \in 1 .. n : ~Spot(y, text, k, r, c)
    <3>1. \A k \in 1 .. m : ~Spot(y, text, k, r, c)
      BY <1>10, <1>12, <2>2
    <3>2. a[r][c] = s[r][c]
      BY <1>3, <1>9, <2>2, CellLeft
    <3>3. b[r][c] = s[r][c]
      BY <1>3, <1>9, <3>1, CellLeft
    <3> QED
      BY <3>2, <3>3
  <2> QED
    BY <2>1, <2>2
<1>13. /\ a = [r \in Screen!Rows |-> [c \in Screen!Columns |-> a[r][c]]]
       /\ b = [r \in Screen!Rows |-> [c \in Screen!Columns |-> b[r][c]]]
  BY <1>9 DEF TextShows
<1>14. CASE text[m] = Ascii(10)
  <2>1. job.x = x /\ job.y = z /\ job.text = Rest(text, n)
    BY <1>7 DEF Screen!Job
  <2>2. Screen!Breaks(job)
    BY <1>8, <1>14, <2>1 DEF Screen!Breaks
  <2>3. Screen!Shown(a, job) = a
    BY <2>2 DEF Screen!Shown
  <2>4. Screen!NextJob(job) = Screen!Job(0, z + 1, Rest(text, m))
    BY <1>8, <2>1, <2>2 DEF Screen!NextJob
  <2>5. b = a
    <3>1. \A r \in Screen!Rows, c \in Screen!Columns : b[r][c] = a[r][c]
      BY <1>12, <1>14 DEF Spot
    <3> QED
      BY <1>13, <3>1
  <2> QED
    BY <1>2, <1>5, <1>6, <1>9, <1>14, <2>3, <2>4, <2>5 DEF JobAt
<1>15. CASE text[m] # Ascii(10)
  <2>1. x < Screen!fb_width
    BY <1>3, <1>4, <1>15 DEF LinesFit
  <2>2. /\ Screen!Shown(a, job) = Screen!printc(a, x, z, text[m])
        /\ Screen!NextJob(job) = Screen!Job(x + 1, z, Rest(text, m))
    BY <1>2, <1>5, <1>7, <1>15, <2>1, RoundIs
  <2>3. ASSUME NEW r \in Screen!Rows, NEW c \in Screen!Columns
        PROVE  b[r][c] = IF r = z /\ c = x THEN Screen!Glyph(text[m]) ELSE a[r][c]
    <3>1. CASE r = z /\ c = x
      <4>1. Spot(y, text, m, r, c)
        BY <1>4, <1>15, <3>1 DEF Spot
      <4>2. m \in 1 .. m
        BY <1>3
      <4>3. Drawn(b, text, m, r, c)
        BY <1>3, <1>9, <4>1, <4>2, CellDrawn
      <4> QED
        BY <3>1, <4>3 DEF Drawn
    <3>2. CASE ~(r = z /\ c = x)
      BY <1>4, <1>12, <3>2 DEF Spot
    <3> QED
      BY <3>1, <3>2
  <2>4. Screen!printc(a, x, z, text[m]) = b
    BY <1>13, <2>3 DEF Screen!printc
  <2> QED
    BY <1>2, <1>5, <1>6, <1>9, <1>15, <2>2, <2>4 DEF JobAt
<1> QED
  BY <1>14, <1>15

\* prints as a whole draws every character where it belongs, and nothing else.
LEMMA PrintsText ==
  ASSUME NEW s \in Screens, NEW y \in Nat, NEW text \in Strings, LinesFit(text)
  PROVE  Screen!prints(s, 0, y, text) = TextShows(s, y, text, Len(text))
<1> DEFINE Is(f) == f = [n \in 0 .. Len(text) |->
                           IF n = 0 THEN [screen |-> s, job |-> Screen!Job(0, y, text)]
                           ELSE [screen |-> Screen!Shown(f[n - 1].screen, f[n - 1].job),
                                 job |-> Screen!NextJob(f[n - 1].job)]]
           u == CHOOSE f : Is(f)
           w == [n \in 0 .. Len(text) |->
                   [screen |-> TextShows(s, y, text, n), job |-> JobAt(y, text, n)]]
<1>1. Len(text) \in Nat
  BY StringIs
<1>2. TextShows(s, y, text, 0) = s
  <2>1. \A r, c : ~ \E k \in 1 .. 0 : Spot(y, text, k, r, c)
    OBVIOUS
  <2>2. TextShows(s, y, text, 0) = [r \in Screen!Rows |-> [c \in Screen!Columns |-> s[r][c]]]
    BY <2>1 DEF TextShows
  <2>3. s = [r \in Screen!Rows |-> [c \in Screen!Columns |-> s[r][c]]]
    BY DEF Screens
  <2> QED
    BY <2>2, <2>3
<1>3. JobAt(y, text, 0) = Screen!Job(0, y, text)
  <2>1. Rest(text, 0) = text
    BY RestIs DEF Strings
  <2>2. 0 + 1 = 1
    OBVIOUS
  <2> QED
    BY <2>1, <2>2, FirstPlace DEF JobAt
<1>4. ASSUME NEW n \in 1 .. Len(text)
      PROVE  w[n] = [screen |-> Screen!Shown(w[n - 1].screen, w[n - 1].job),
                     job |-> Screen!NextJob(w[n - 1].job)]
  <2>1. PICK m : m = n - 1
    OBVIOUS
  <2>2. m \in 0 .. Len(text) - 1 /\ m \in 0 .. Len(text) /\ m + 1 = n /\ n \in 0 .. Len(text)
    BY <1>1, <2>1
  <2>3. w[m].screen = TextShows(s, y, text, m) /\ w[m].job = JobAt(y, text, m)
    BY <2>2
  <2>4. w[n] = [screen |-> TextShows(s, y, text, n), job |-> JobAt(y, text, n)]
    BY <2>2
  <2> HIDE DEF w
  <2>5. /\ Screen!Shown(TextShows(s, y, text, m), JobAt(y, text, m)) = TextShows(s, y, text, n)
        /\ Screen!NextJob(JobAt(y, text, m)) = JobAt(y, text, n)
    BY <2>2, TextRound
  <2> QED
    BY <2>1, <2>3, <2>4, <2>5
<1>5. w[0] = [screen |-> s, job |-> Screen!Job(0, y, text)]
  BY <1>1, <1>2, <1>3
<1>6. Is(w)
  <2>1. ASSUME NEW n \in 0 .. Len(text)
        PROVE  w[n] = IF n = 0 THEN [screen |-> s, job |-> Screen!Job(0, y, text)]
                      ELSE [screen |-> Screen!Shown(w[n - 1].screen, w[n - 1].job),
                            job |-> Screen!NextJob(w[n - 1].job)]
    <3>1. n = 0 \/ n \in 1 .. Len(text)
      BY <1>1
    <3> HIDE DEF w
    <3> QED
      BY <1>4, <1>5, <3>1
  <2>2. w = [n \in 0 .. Len(text) |-> w[n]]
    OBVIOUS
  <2> HIDE DEF w
  <2> QED
    BY <2>1, <2>2
<1>7. Is(u)
  <2> HIDE DEF w
  <2> QED
    BY <1>6, Zenon
<1>8. Screen!prints(s, 0, y, text) = u[Len(text)].screen
  BY Zenon DEF Screen!prints
<1>9. w[Len(text)].screen = TextShows(s, y, text, Len(text))
  BY <1>1
<1> HIDE DEF u, w
<1>10. ASSUME NEW n \in 0 .. Len(text) PROVE u[n] = w[n]
  <2> DEFINE S == {x \in 0 .. Len(text) : u[x] # w[x]}
  <2> SUFFICES ASSUME S # {} PROVE FALSE
    OBVIOUS
  <2>1. PICK x \in S : \A z \in S : x <= z
    <3>1. S \subseteq Nat
      OBVIOUS
    <3> HIDE DEF S
    <3> QED
      BY <3>1, LeastNumber
  <2>2. x \in 0 .. Len(text) /\ u[x] # w[x]
    OBVIOUS
  <2>3. u[0] = w[0]
    BY <1>1, <1>5, <1>7
  <2>4. x \in 1 .. Len(text) /\ x - 1 \in 0 .. Len(text) /\ ~(x <= x - 1)
    BY <1>1, <2>2, <2>3
  <2>5. u[x - 1] = w[x - 1]
    BY <2>1, <2>4
  <2>6. u[x] = [screen |-> Screen!Shown(u[x - 1].screen, u[x - 1].job),
                job |-> Screen!NextJob(u[x - 1].job)]
    BY <1>7, <2>4
  <2> QED
    BY <1>4, <2>2, <2>4, <2>5, <2>6
<1>11. Len(text) \in 0 .. Len(text)
  BY <1>1
<1> QED
  BY <1>8, <1>9, <1>10, <1>11

\* What prints does with any string whose lines fit, on any screen, from the
\* left edge of any row on: the string is in place, as far as the screen goes,
\* and every cell in which none of its characters belongs is as it was.
THEOREM printsCorrect ==
  ASSUME NEW s \in Screens, NEW y \in Nat, NEW text \in Strings, LinesFit(text)
  PROVE  /\ Screen!InPlace(Screen!prints(s, 0, y, text), 0, y, text)
         /\ \A r \in Screen!Rows, c \in Screen!Columns :
              (\A k \in DOMAIN text : ~Spot(y, text, k, r, c))
              => Screen!prints(s, 0, y, text)[r][c] = s[r][c]
<1>1. Len(text) \in Nat /\ DOMAIN text = 1 .. Len(text)
  BY StringIs
<1>2. PICK t : t = Screen!prints(s, 0, y, text)
  OBVIOUS
<1>3. t = TextShows(s, y, text, Len(text))
  BY <1>2, PrintsText
<1>4. ASSUME NEW n \in DOMAIN text, text[n] # Ascii(10),
             Screen!RowAt(y, text, n) \in Screen!Rows,
             Screen!ColumnAt(0, text, n) \in Screen!Columns
      PROVE  t[Screen!RowAt(y, text, n)][Screen!ColumnAt(0, text, n)] = Screen!Glyph(text[n])
  <2>1. PICK r, c : r = Screen!RowAt(y, text, n) /\ c = Screen!ColumnAt(0, text, n)
    OBVIOUS
  <2>2. Spot(y, text, n, r, c) /\ r \in Screen!Rows /\ c \in Screen!Columns
    BY <1>4, <2>1 DEF Spot
  <2>3. Drawn(t, text, n, r, c)
    BY <1>1, <1>3, <2>2, CellDrawn
  <2> QED
    BY <2>1, <2>3 DEF Drawn
<1>5. Screen!InPlace(t, 0, y, text)
  BY <1>4 DEF Screen!InPlace
<1>6. ASSUME NEW r \in Screen!Rows, NEW c \in Screen!Columns,
             \A k \in DOMAIN text : ~Spot(y, text, k, r, c)
      PROVE  t[r][c] = s[r][c]
  BY <1>1, <1>3, <1>6, CellLeft
<1> QED
  BY <1>2, <1>5, <1>6

-----------------------------------------------------------------------------
(* What _start prints of the result *)

\* The first n digits are in the row 2.
DigitsUpto(s, text, n) ==
  \A c \in Screen!Columns : c < n => s[2][c] = Screen!Glyph(text[c + 1])

\* _start is about to print the digit behind the first n, or the character of
\* the module behind the first n.
PrintsDigits(s, js, r, n) ==
  /\ js = <<Screen!Job(n, 2, Rest(Hex(r.number), n)), Screen!Job(0, 3, r.image)>>
  /\ DigitsUpto(s, Hex(r.number), n)

\* The result is complete, and so are the module's first n characters.
PrintsImage(s, js, r, n) ==
  /\ js = <<Screen!Job(Screen!ColumnAt(0, r.image, n + 1),
                       Screen!RowAt(3, r.image, n + 1), Rest(r.image, n))>>
  /\ DigitsUpto(s, Hex(r.number), Len(Hex(r.number)))
  /\ PlacedUpto(s, 0, 3, r.image, n)

\* _start is somewhere in the result or in the module's text.
Printing(s, js, r) ==
  \/ \E n \in 0 .. Len(Hex(r.number)) : PrintsDigits(s, js, r, n)
  \/ \E n \in 0 .. Len(r.image) : PrintsImage(s, js, r, n)

\* The result and the module's text are complete.
Printed(s, r) ==
  /\ DigitsUpto(s, Hex(r.number), Len(Hex(r.number)))
  /\ PlacedUpto(s, 0, 3, r.image, Len(r.image))

\* How much of the result is on the screen, by how far _start is.
OnScreen ==
  /\ pc = "print" /\ result # None => Printing(screen, jobs, result)
  /\ pc = "idle" => result # None /\ Printed(screen, result)

\* Until a page fault stops the kernel.
PrintInv == fault = None => OnScreen

\* What is drawn in the top row leaves them alone.
LEMMA TopRowApart ==
  ASSUME NEW s, NEW t,
         \A r \in Screen!Rows, c \in Screen!Columns : r # 0 => t[r][c] = s[r][c]
  PROVE  /\ \A text, n : DigitsUpto(s, text, n) => DigitsUpto(t, text, n)
         /\ \A text, n : n \in Nat /\ PlacedUpto(s, 0, 3, text, n) => PlacedUpto(t, 0, 3, text, n)
<1>1. 2 \in Screen!Rows
  BY KeysAssumption DEF Screen!Rows
<1>2. ASSUME NEW text, NEW n, DigitsUpto(s, text, n) PROVE DigitsUpto(t, text, n)
  <2>1. ASSUME NEW c \in Screen!Columns PROVE t[2][c] = s[2][c]
    BY <1>1
  <2> QED
    BY <1>2, <2>1 DEF DigitsUpto
<1>3. ASSUME NEW text, NEW n \in Nat, PlacedUpto(s, 0, 3, text, n) PROVE PlacedUpto(t, 0, 3, text, n)
  <2>1. SUFFICES ASSUME NEW k \in 1 .. n, text[k] # Ascii(10),
                        Screen!RowAt(3, text, k) \in Screen!Rows,
                        Screen!ColumnAt(0, text, k) \in Screen!Columns
                 PROVE  t[Screen!RowAt(3, text, k)][Screen!ColumnAt(0, text, k)] = text[k]
    BY DEF PlacedUpto
  <2>2. s[Screen!RowAt(3, text, k)][Screen!ColumnAt(0, text, k)] = text[k]
    BY <1>3, <2>1 DEF PlacedUpto
  <2>3. Screen!RowAt(3, text, k) \in Nat /\ Screen!RowAt(3, text, k) >= 3
    <3>1. k \in Nat \ {0} /\ 3 \in Nat
      OBVIOUS
    <3> QED
      BY <3>1, NextPlace
  <2>4. Screen!RowAt(3, text, k) # 0
    BY <2>3
  <2> QED
    BY <2>1, <2>2, <2>4
<1> QED
  BY <1>2, <1>3

\* One more digit.
LEMMA DigitPrinted ==
  ASSUME NEW s \in Screens, NEW v \in Results, NEW n \in 0 .. Len(Hex(v)) - 1,
         DigitsUpto(s, Hex(v), n), NEW job, job = Screen!Job(n, 2, Rest(Hex(v), n))
  PROVE  /\ DigitsUpto(Screen!Shown(s, job), Hex(v), n + 1)
         /\ Screen!NextJob(job) = Screen!Job(n + 1, 2, Rest(Hex(v), n + 1))
<1>1. /\ v \in Nat /\ Hex(v) \in Strings /\ Len(Hex(v)) <= Screen!fb_width
      /\ Len(Hex(v)) \in Nat /\ DOMAIN Hex(v) = 1 .. Len(Hex(v))
  BY TextTypes, StringIs
<1>2. n \in Nat /\ n + 1 \in 1 .. Len(Hex(v)) /\ n < Screen!fb_width
  <2>1. Screen!fb_width \in Nat
    BY KeysAssumption DEF Screen!fb_width
  <2> QED
    BY <1>1, <2>1
<1>3. Hex(v)[n + 1] # Ascii(10)
  BY <1>1, <1>2, HexIs
<1>4. /\ Screen!Shown(s, job) = Screen!printc(s, n, 2, Hex(v)[n + 1])
      /\ Screen!NextJob(job) = Screen!Job(n + 1, 2, Rest(Hex(v), n + 1))
  <2>1. PICK text : text = Hex(v)
    OBVIOUS
  <2>2. /\ text \in Strings /\ n \in 0 .. Len(text) - 1 /\ n \in Nat
        /\ n < Screen!fb_width /\ text[n + 1] # Ascii(10)
    BY <1>1, <1>2, <1>3, <2>1
  <2>3. /\ Screen!Shown(s, Screen!Job(n, 2, Rest(text, n))) = Screen!printc(s, n, 2, text[n + 1])
        /\ Screen!NextJob(Screen!Job(n, 2, Rest(text, n)))
             = Screen!Job(n + 1, 2, Rest(text, n + 1))
    BY <2>2, RoundIs
  <2> QED
    BY <2>1, <2>3
<1>5. PICK ch : ch = Hex(v)[n + 1]
  OBVIOUS
<1>6. Screen!Glyph(ch) \in Cells
  <2>1. Screen!Glyph(ch) = ch /\ ch \in Cells
    BY <1>1, <1>2, <1>5, StringIs
  <2> QED
    BY <2>1
<1>7. 2 \in Screen!Rows
  BY KeysAssumption DEF Screen!Rows
<1>8. ASSUME NEW c \in Screen!Columns, c < n + 1
      PROVE  Screen!Shown(s, job)[2][c] = Screen!Glyph(Hex(v)[c + 1])
  <2>1. Screen!Shown(s, job)[2][c] = IF c = n THEN Screen!Glyph(ch) ELSE s[2][c]
    BY <1>4, <1>5, <1>6, <1>7, PrintcIs
  <2>2. c # n => c < n
    BY <1>2, <1>8, KeysAssumption DEF Screen!Columns
  <2> QED
    BY <1>5, <2>1, <2>2 DEF DigitsUpto
<1> QED
  BY <1>4, <1>8 DEF DigitsUpto

\* One more character of the module, or a new line.
LEMMA ImagePrinted ==
  ASSUME NEW s \in Screens, NEW text \in Images, NEW n \in 0 .. Len(text) - 1,
         PlacedUpto(s, 0, 3, text, n), NEW job,
         job = Screen!Job(Screen!ColumnAt(0, text, n + 1), Screen!RowAt(3, text, n + 1),
                          Rest(text, n))
  PROVE  /\ PlacedUpto(Screen!Shown(s, job), 0, 3, text, n + 1)
         /\ \A d, m : DigitsUpto(s, d, m) => DigitsUpto(Screen!Shown(s, job), d, m)
         /\ Screen!NextJob(job) =
              Screen!Job(Screen!ColumnAt(0, text, (n + 1) + 1),
                         Screen!RowAt(3, text, (n + 1) + 1), Rest(text, n + 1))
<1>1. text \in Strings /\ Len(text) <= Screen!fb_width /\ Len(text) \in Nat
  BY TextTypes, TextsAssumption, StringIs
<1>2. PICK m : m = n + 1
  OBVIOUS
<1>3. m \in Nat \ {0} /\ m \in 1 .. Len(text) /\ n \in Nat /\ m - 1 = n
  BY <1>1, <1>2
<1>4. PICK x, y : x = Screen!ColumnAt(0, text, m) /\ y = Screen!RowAt(3, text, m)
  OBVIOUS
<1>5. /\ y \in Nat /\ y >= 3 /\ x \in 0 .. n
      /\ text[m] = Ascii(10) => Screen!RowAt(3, text, m + 1) = y + 1
                                /\ Screen!ColumnAt(0, text, m + 1) = 0
      /\ text[m] # Ascii(10) => Screen!RowAt(3, text, m + 1) = y
                                /\ Screen!ColumnAt(0, text, m + 1) = x + 1
  <2>1. 3 \in Nat /\ m \in Nat \ {0}
    BY <1>3
  <2>2. /\ Screen!RowAt(3, text, m) \in Nat /\ Screen!RowAt(3, text, m) >= 3
        /\ Screen!ColumnAt(0, text, m) \in 0 .. m - 1
    BY <2>1, NextPlace
  <2>3. Follows(3, text, m)
    BY <2>1, NextPlace
  <2> QED
    BY <1>3, <1>4, <2>2, <2>3 DEF Follows
<1>6. job = Screen!Job(x, y, Rest(text, n))
  BY <1>2, <1>4
<1>7. Head(Rest(text, n)) = text[m] /\ Tail(Rest(text, n)) = Rest(text, m)
  BY <1>1, <1>2, RestIs DEF Strings
<1>8. CASE text[m] = Ascii(10)
  <2>1. job.x = x /\ job.y = y /\ job.text = Rest(text, n)
    BY <1>6 DEF Screen!Job
  <2>2. Screen!Breaks(job)
    BY <1>7, <1>8, <2>1 DEF Screen!Breaks
  <2>3. Screen!Shown(s, job) = s
    BY <2>2 DEF Screen!Shown
  <2>4. Screen!NextJob(job) = Screen!Job(0, y + 1, Rest(text, m))
    BY <1>7, <2>1, <2>2 DEF Screen!NextJob
  <2>5. PlacedUpto(s, 0, 3, text, m)
    <3>1. \A k \in 1 .. m : k = m \/ k \in 1 .. n
      BY <1>3
    <3> QED
      BY <1>8, <3>1 DEF PlacedUpto
  <2> QED
    BY <1>2, <1>5, <1>8, <2>3, <2>4, <2>5
<1>9. CASE text[m] # Ascii(10)
  <2>1. x \in Nat /\ x < Screen!fb_width
    <3>1. Screen!fb_width \in Nat
      BY KeysAssumption DEF Screen!fb_width
    <3> QED
      BY <1>1, <1>3, <1>5, <3>1
  <2>2. /\ Screen!Shown(s, job) = Screen!printc(s, x, y, text[m])
        /\ Screen!NextJob(job) = Screen!Job(x + 1, y, Rest(text, m))
    BY <1>1, <1>2, <1>6, <1>9, <2>1, RoundIs
  <2>3. PICK ch : ch = text[m]
    OBVIOUS
  <2>4. Screen!Glyph(ch) = ch /\ ch \in Cells
    BY <1>1, <1>3, <2>3, StringIs
  <2>5. PICK t : t = Screen!Shown(s, job)
    OBVIOUS
  <2>6. \A r \in Screen!Rows, c \in Screen!Columns :
          t[r][c] = IF r = y /\ c = x THEN ch ELSE s[r][c]
    BY <2>2, <2>3, <2>4, <2>5, PrintcIs
  <2>7. \A d, z : DigitsUpto(s, d, z) => DigitsUpto(t, d, z)
    <3>1. 2 \in Screen!Rows /\ y # 2
      BY <1>5, KeysAssumption DEF Screen!Rows
    <3>2. \A c \in Screen!Columns : t[2][c] = s[2][c]
      BY <2>6, <3>1
    <3> QED
      BY <3>2 DEF DigitsUpto
  <2>8. PlacedUpto(t, 0, 3, text, m)
    <3>1. SUFFICES ASSUME NEW k \in 1 .. m, text[k] # Ascii(10),
                          Screen!RowAt(3, text, k) \in Screen!Rows,
                          Screen!ColumnAt(0, text, k) \in Screen!Columns
                   PROVE  t[Screen!RowAt(3, text, k)][Screen!ColumnAt(0, text, k)] = text[k]
      BY DEF PlacedUpto
    <3>2. CASE k = m
      BY <1>4, <2>3, <2>6, <3>1, <3>2
    <3>3. CASE k # m
      <4>1. k \in 1 .. n /\ k \in 1 .. m - 1
        BY <1>3, <3>3
      <4>2. ~(Screen!RowAt(3, text, k) = y /\ Screen!ColumnAt(0, text, k) = x)
        <5>1. 3 \in Nat
          OBVIOUS
        <5> QED
          BY <1>3, <1>4, <4>1, <5>1, PlacesDiffer
      <4>3. s[Screen!RowAt(3, text, k)][Screen!ColumnAt(0, text, k)] = text[k]
        BY <3>1, <4>1 DEF PlacedUpto
      <4> QED
        BY <2>6, <3>1, <4>2, <4>3
    <3> QED
      BY <3>2, <3>3
  <2> QED
    BY <1>2, <1>5, <1>9, <2>2, <2>5, <2>7, <2>8
<1> QED
  BY <1>8, <1>9

-----------------------------------------------------------------------------

\* A character of what _start prints of the result.
LEMMA PrintingGoesOn ==
  ASSUME ScreenInv, PrintInv, PrintChar, result # None
  PROVE  Printing(screen', jobs', result)
<1>1. /\ pc = "print" /\ fault = None /\ Head(jobs).text # <<>>
      /\ jobs' = [jobs EXCEPT ![1] = Screen!NextJob(@)]
      /\ screen' = Screen!Shown(screen, Head(jobs))
  BY DEF PrintChar
<1>2. PICK s, r, js : s = screen /\ r = result /\ js = jobs
  OBVIOUS
<1>3. s \in Screens /\ r.number \in Results /\ r.image \in Images
  BY <1>2 DEF ScreenInv
<1>4. Printing(s, js, r)
  BY <1>1, <1>2 DEF PrintInv, OnScreen
<1>5. /\ Hex(r.number) \in Strings /\ Len(Hex(r.number)) \in Nat
      /\ r.image \in Strings /\ Len(r.image) \in Nat
  BY <1>3, TextTypes, StringIs
<1>6. ASSUME NEW job, NEW text \in Strings, NEW n \in 0 .. Len(text), NEW x, NEW y,
             job = Screen!Job(x, y, Rest(text, n)), Head(js) = job
      PROVE  n \in 0 .. Len(text) - 1
  <2>1. job.text = Rest(text, n)
    BY <1>6 DEF Screen!Job
  <2>2. Rest(text, n) # <<>>
    BY <1>1, <1>2, <1>6, <2>1
  <2>3. n # Len(text) /\ Len(text) \in Nat
    BY <2>2, RestIs, StringIs DEF Strings
  <2> QED
    BY <2>3
<1>7. ASSUME NEW n \in 0 .. Len(Hex(r.number)), PrintsDigits(s, js, r, n)
      PROVE  Printing(screen', jobs', result)
  <2>1. PICK job, other : /\ job = Screen!Job(n, 2, Rest(Hex(r.number), n))
                          /\ other = Screen!Job(0, 3, r.image)
    OBVIOUS
  <2>2. js = <<job, other>> /\ DigitsUpto(s, Hex(r.number), n)
    BY <1>7, <2>1 DEF PrintsDigits
  <2>3. Head(js) = job
    BY <2>2
  <2>4. n \in 0 .. Len(Hex(r.number)) - 1 /\ n + 1 \in 0 .. Len(Hex(r.number))
    <3>1. n \in 0 .. Len(Hex(r.number)) - 1
      BY <1>5, <1>6, <2>1, <2>3
    <3> QED
      BY <1>5, <3>1
  <2>5. /\ DigitsUpto(Screen!Shown(s, job), Hex(r.number), n + 1)
        /\ Screen!NextJob(job) = Screen!Job(n + 1, 2, Rest(Hex(r.number), n + 1))
    BY <1>3, <2>1, <2>2, <2>4, DigitPrinted
  <2>6. jobs' = <<Screen!NextJob(job), other>>
    BY <1>1, <1>2, <2>2
  <2>7. screen' = Screen!Shown(s, job)
    BY <1>1, <1>2, <2>3
  <2>8. PrintsDigits(screen', jobs', r, n + 1)
    BY <2>1, <2>5, <2>6, <2>7 DEF PrintsDigits
  <2> QED
    BY <1>2, <2>4, <2>8 DEF Printing
<1>8. ASSUME NEW n \in 0 .. Len(r.image), PrintsImage(s, js, r, n)
      PROVE  Printing(screen', jobs', result)
  <2>1. PICK job : job = Screen!Job(Screen!ColumnAt(0, r.image, n + 1),
                                    Screen!RowAt(3, r.image, n + 1), Rest(r.image, n))
    OBVIOUS
  <2>2. /\ js = <<job>>
        /\ DigitsUpto(s, Hex(r.number), Len(Hex(r.number)))
        /\ PlacedUpto(s, 0, 3, r.image, n)
    BY <1>8, <2>1 DEF PrintsImage
  <2>3. Head(js) = job
    BY <2>2
  <2>4. n \in 0 .. Len(r.image) - 1 /\ n + 1 \in 0 .. Len(r.image)
    <3>1. n \in 0 .. Len(r.image) - 1
      BY <1>5, <1>6, <2>1, <2>3
    <3> QED
      BY <1>5, <3>1
  <2>5. /\ PlacedUpto(Screen!Shown(s, job), 0, 3, r.image, n + 1)
        /\ \A d, m : DigitsUpto(s, d, m) => DigitsUpto(Screen!Shown(s, job), d, m)
        /\ Screen!NextJob(job) =
             Screen!Job(Screen!ColumnAt(0, r.image, (n + 1) + 1),
                        Screen!RowAt(3, r.image, (n + 1) + 1), Rest(r.image, n + 1))
    BY <1>3, <2>1, <2>2, <2>4, ImagePrinted
  <2>6. jobs' = <<Screen!NextJob(job)>>
    BY <1>1, <1>2, <2>2
  <2>7. screen' = Screen!Shown(s, job)
    BY <1>1, <1>2, <2>3
  <2>8. PrintsImage(screen', jobs', r, n + 1)
    BY <2>2, <2>5, <2>6, <2>7 DEF PrintsImage
  <2> QED
    BY <1>2, <2>4, <2>8 DEF Printing
<1> QED
  BY <1>4, <1>7, <1>8 DEF Printing

\* The end of the digits, or of the module.
LEMMA PrintingEnds ==
  ASSUME ScreenInv, PrintInv, NextString
  PROVE  /\ pc' = "print" => Printing(screen', jobs', result)
         /\ pc' = "idle" => Printed(screen', result)
<1>1. /\ pc = "print" /\ fault = None /\ Head(jobs).text = <<>> /\ result # None
      /\ jobs' = Tail(jobs) /\ pc' = (IF jobs' = <<>> THEN "idle" ELSE "print")
      /\ screen' = screen
  BY DEF NextString, console
<1>2. PICK s, r, js : s = screen /\ r = result /\ js = jobs
  OBVIOUS
<1>3. r.number \in Results /\ r.image \in Images
  BY <1>1, <1>2 DEF ScreenInv
<1>4. Printing(s, js, r)
  BY <1>1, <1>2 DEF PrintInv, OnScreen
<1>5. /\ Hex(r.number) \in Strings /\ Len(Hex(r.number)) \in Nat
      /\ r.image \in Strings /\ Len(r.image) \in Nat
  BY <1>3, TextTypes, StringIs
<1>6. ASSUME NEW job, NEW text \in Strings, NEW n \in 0 .. Len(text), NEW x, NEW y,
             job = Screen!Job(x, y, Rest(text, n)), Head(js) = job
      PROVE  n = Len(text)
  <2>1. job.text = Rest(text, n)
    BY <1>6 DEF Screen!Job
  <2>2. Rest(text, n) = <<>>
    BY <1>1, <1>2, <1>6, <2>1
  <2> QED
    BY <2>2, RestIs, StringIs DEF Strings
<1>7. ASSUME NEW n \in 0 .. Len(Hex(r.number)), PrintsDigits(s, js, r, n)
      PROVE  pc' = "print" /\ Printing(screen', jobs', result)
  <2>1. PICK job, other : /\ job = Screen!Job(n, 2, Rest(Hex(r.number), n))
                          /\ other = Screen!Job(0, 3, r.image)
    OBVIOUS
  <2>2. js = <<job, other>> /\ DigitsUpto(s, Hex(r.number), n)
    BY <1>7, <2>1 DEF PrintsDigits
  <2>3. Head(js) = job
    BY <2>2
  <2>4. n = Len(Hex(r.number))
    BY <1>5, <1>6, <2>1, <2>3
  <2>5. jobs' = <<other>> /\ jobs' # <<>>
    BY <1>1, <1>2, <2>2
  <2>6. PlacedUpto(s, 0, 3, r.image, 0)
    BY DEF PlacedUpto
  <2>7. other = Screen!Job(Screen!ColumnAt(0, r.image, 0 + 1),
                           Screen!RowAt(3, r.image, 0 + 1), Rest(r.image, 0))
    <3>1. 0 + 1 = 1 /\ 3 \in Nat
      OBVIOUS
    <3>2. Rest(r.image, 0) = r.image
      BY <1>5, RestIs DEF Strings
    <3>3. Screen!RowAt(3, r.image, 1) = 3 /\ Screen!ColumnAt(0, r.image, 1) = 0
      BY <3>1, FirstPlace
    <3> QED
      BY <2>1, <3>1, <3>2, <3>3
  <2>8. PrintsImage(s, jobs', r, 0)
    BY <2>2, <2>4, <2>5, <2>6, <2>7 DEF PrintsImage
  <2>9. 0 \in 0 .. Len(r.image)
    BY <1>5
  <2> QED
    BY <1>1, <1>2, <2>5, <2>8, <2>9 DEF Printing
<1>8. ASSUME NEW n \in 0 .. Len(r.image), PrintsImage(s, js, r, n)
      PROVE  pc' = "idle" /\ Printed(screen', result)
  <2>1. PICK job : job = Screen!Job(Screen!ColumnAt(0, r.image, n + 1),
                                    Screen!RowAt(3, r.image, n + 1), Rest(r.image, n))
    OBVIOUS
  <2>2. /\ js = <<job>>
        /\ DigitsUpto(s, Hex(r.number), Len(Hex(r.number)))
        /\ PlacedUpto(s, 0, 3, r.image, n)
    BY <1>8, <2>1 DEF PrintsImage
  <2>3. Head(js) = job
    BY <2>2
  <2>4. n = Len(r.image)
    BY <1>5, <1>6, <2>1, <2>3
  <2>5. jobs' = <<>>
    BY <1>1, <1>2, <2>2
  <2> QED
    BY <1>1, <1>2, <2>2, <2>4, <2>5 DEF Printed
<1>9. CASE \E n \in 0 .. Len(Hex(r.number)) : PrintsDigits(s, js, r, n)
  <2>1. pc' = "print" /\ Printing(screen', jobs', result)
    BY <1>7, <1>9
  <2> QED
    BY <2>1
<1>10. CASE \E n \in 0 .. Len(r.image) : PrintsImage(s, js, r, n)
  <2>1. pc' = "idle" /\ Printed(screen', result)
    BY <1>8, <1>10
  <2> QED
    BY <2>1
<1> QED
  BY <1>4, <1>9, <1>10 DEF Printing

\* Nothing has been printed of the result at boot.
LEMMA PrintInit == Init => PrintInv
BY DEF Init, PrintInv, OnScreen

\* Every step keeps what has been printed of the result.
LEMMA PrintStep == TypeInv /\ ScreenInv /\ PrintInv /\ [Next]_vars => PrintInv'
<1> SUFFICES ASSUME TypeInv, ScreenInv, PrintInv, [Next]_vars, fault' = None
             PROVE  OnScreen'
  BY DEF PrintInv
<1>1. ASSUME UNCHANGED <<screen, start, fault>> PROVE OnScreen'
  BY <1>1 DEF PrintInv, OnScreen, start
<1>2. ASSUME NEW key \in Keys, Press(key) \/ Repeat(key) \/ Release(key) PROVE OnScreen'
  <2>1. UNCHANGED <<screen, start, fault>>
    BY <1>2 DEF Press, Repeat, Release, console
  <2> QED
    BY <1>1, <2>1
<1>3. CASE _keyboard_int
  <2>1. UNCHANGED start /\ fault = None
    BY <1>3 DEF _keyboard_int
  <2>2. PICK s, t : s = screen /\ t = screen'
    OBVIOUS
  <2>3. \A r \in Screen!Rows, c \in Screen!Columns : r # 0 => t[r][c] = s[r][c]
    BY <1>3, <2>2, HandlerDraws
  <2>4. \A text, n : DigitsUpto(s, text, n) => DigitsUpto(t, text, n)
    BY <2>3, TopRowApart
  <2>5. \A text, n : n \in Nat /\ PlacedUpto(s, 0, 3, text, n) => PlacedUpto(t, 0, 3, text, n)
    BY <2>3, TopRowApart
  <2>6. pc' = pc /\ jobs' = jobs /\ result' = result
    BY <2>1 DEF start
  <2>7. PICK r, js : r = result /\ js = jobs
    OBVIOUS
  <2>8. ASSUME Printing(s, js, r) PROVE Printing(t, js, r)
    <3>1. ASSUME NEW n \in 0 .. Len(Hex(r.number)), PrintsDigits(s, js, r, n)
          PROVE  Printing(t, js, r)
      <4>1. PrintsDigits(t, js, r, n)
        BY <2>4, <3>1 DEF PrintsDigits
      <4> QED
        BY <4>1 DEF Printing
    <3>2. ASSUME NEW n \in 0 .. Len(r.image), PrintsImage(s, js, r, n)
          PROVE  Printing(t, js, r)
      <4>1. PrintsImage(t, js, r, n)
        BY <2>4, <2>5, <3>2 DEF PrintsImage
      <4> QED
        BY <4>1 DEF Printing
    <3> QED
      BY <2>8, <3>1, <3>2 DEF Printing
  <2>9. ASSUME r # None, Printed(s, r) PROVE Printed(t, r)
    <3>1. Len(r.image) \in Nat
      <4>1. r.image \in Images
        BY <2>7, <2>9 DEF ScreenInv
      <4> QED
        BY <4>1, TextTypes, StringIs
    <3> QED
      BY <2>4, <2>5, <2>9, <3>1 DEF Printed
  <2>10. /\ pc = "print" /\ r # None => Printing(s, js, r)
         /\ pc = "idle" => r # None /\ Printed(s, r)
    BY <2>1, <2>2, <2>7 DEF PrintInv, OnScreen
  <2>11. /\ pc = "print" /\ r # None => Printing(t, js, r)
         /\ pc = "idle" => r # None /\ Printed(t, r)
    BY <2>8, <2>9, <2>10
  <2> QED
    BY <2>2, <2>6, <2>7, <2>11 DEF OnScreen
<1>4. CASE Steal
  <2>1. UNCHANGED <<screen, start, fault>>
    BY <1>4 DEF Steal, console
  <2> QED
    BY <1>1, <2>1
<1>5. CASE init_mouse
  <2>1. pc' = "print" /\ result' = None
    BY <1>5 DEF init_mouse, ScreenInv
  <2> QED
    BY <2>1 DEF OnScreen
<1>6. CASE PrintChar
  <2>1. pc' = "print" /\ result' = result
    BY <1>6 DEF PrintChar
  <2>2. result # None => Printing(screen', jobs', result)
    BY <1>6, PrintingGoesOn
  <2> QED
    BY <2>1, <2>2 DEF OnScreen
<1>7. CASE run_elf
  <2>1. PICK r \in Results, image \in Images :
          /\ result' = [number |-> r, image |-> image]
          /\ jobs' = <<Screen!Job(0, 2, Hex(r)), Screen!Job(0, 3, image)>>
    BY <1>7 DEF run_elf
  <2>2. pc' = "print"
    BY <1>7 DEF run_elf
  <2>3. PICK new : new = [number |-> r, image |-> image]
    OBVIOUS
  <2>4. new.number = r /\ new.image = image /\ result' = new
    BY <2>1, <2>3
  <2>5. Hex(r) \in Strings /\ Len(Hex(r)) \in Nat
    BY TextTypes, StringIs
  <2>6. Rest(Hex(r), 0) = Hex(r)
    BY <2>5, RestIs DEF Strings
  <2>7. PICK s : s = screen'
    OBVIOUS
  <2>8. DigitsUpto(s, Hex(r), 0)
    BY KeysAssumption DEF DigitsUpto, Screen!Columns
  <2>9. PrintsDigits(s, jobs', new, 0)
    BY <2>1, <2>4, <2>6, <2>8 DEF PrintsDigits
  <2>10. 0 \in 0 .. Len(Hex(new.number))
    BY <2>4, <2>5
  <2>11. Printing(s, jobs', new)
    BY <2>9, <2>10 DEF Printing
  <2> QED
    BY <2>2, <2>4, <2>7, <2>11 DEF OnScreen
<1>8. CASE NextString
  <2>1. result' = result /\ result # None
    BY <1>8 DEF NextString
  <2>2. /\ pc' = "print" => Printing(screen', jobs', result)
        /\ pc' = "idle" => Printed(screen', result)
    BY <1>8, PrintingEnds
  <2> QED
    BY <2>1, <2>2 DEF OnScreen
<1>9. ASSUME NEW code \in ErrorCodes, NEW address \in Addresses, PageFault(code, address)
      PROVE  FALSE
  <2>1. fault' = [code |-> code, address |-> address] /\ fault' = None
    BY <1>9 DEF PageFault
  <2>2. DOMAIN [code |-> code, address |-> address] = {"code", "address"}
    OBVIOUS
  <2>3. DOMAIN None = {"none"}
    BY DEF None
  <2> QED
    BY <2>1, <2>2, <2>3
<1>10. CASE UNCHANGED vars
  <2>1. UNCHANGED <<screen, start, fault>>
    BY <1>10 DEF vars, console
  <2> QED
    BY <1>1, <2>1
<1> QED
  BY <1>2, <1>3, <1>4, <1>5, <1>6, <1>7, <1>8, <1>9, <1>10 DEF Next

\* Once _start has printed everything, its result and the module's bytes are in
\* their rows, whatever is typed before, between or after, unless a page fault
\* stops the kernel.
THEOREM PrintedStaysCorrect == Spec => []PrintedStays
<1>1. ScreenInv /\ PrintInv => PrintedStays
  <2> SUFFICES ASSUME ScreenInv, PrintInv, pc = "idle", fault = None
               PROVE  /\ Reads(screen[2], result.number)
                      /\ Screen!InPlace(screen, 0, 3, result.image)
    BY DEF PrintedStays
  <2>1. PICK s, r : s = screen /\ r = result
    OBVIOUS
  <2>2. r # None /\ Printed(s, r)
    BY <2>1 DEF PrintInv, OnScreen
  <2>3. r.number \in Results /\ r.image \in Images
    BY <2>1, <2>2 DEF ScreenInv
  <2>4. r.number \in Nat /\ Len(Hex(r.number)) <= Width /\ r.image \in Strings
    BY <2>3, TextTypes
  <2>5. Reads(s[2], r.number)
    BY <2>2, <2>4, DigitsRead DEF Printed, DigitsUpto
  <2>6. Screen!InPlace(s, 0, 3, r.image)
    BY <2>2, <2>4, PlacedIsInPlace DEF Printed
  <2> QED
    BY <2>1, <2>5, <2>6
<1>2. TypeInv /\ ScreenInv /\ PrintInv /\ [Next]_vars => TypeInv' /\ ScreenInv' /\ PrintInv'
  BY TypeStep, ScreenStep, PrintStep
<1> QED
  BY <1>1, <1>2, TypeInit, ScreenInit, PrintInit, PTL DEF Spec

=============================================================================
