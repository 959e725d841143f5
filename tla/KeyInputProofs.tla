--------------------------- MODULE KeyInputProofs ---------------------------
(***************************************************************************)
(* The keyboard buffer keeps the keys, for every buffer, layout and number *)
(* of keys: the invariant of the program and the interrupt handler, and    *)
(* its proof.                                                              *)
(***************************************************************************)
EXTENDS KeyInput, SequenceTheorems, TLAPS

(* Where the buffer keeps the character pending[b].                        *)
Place(b) == IF pc = "index" \/ (pc = "copy" /\ k < n /\ b > k) THEN b ELSE b - 1

Unread == IF pc = "index" THEN keybuffer_index - 1 ELSE keybuffer_index

Kept ==
  /\ Len(pending) = Unread
  /\ \A b \in 1 .. Len(pending) : pending[b] = keybuffer[Place(b)]

(* What the program knows between two steps as long as no key has come     *)
(* into one of the windows: the index it found is still the index, or at   *)
(* least not zero, and memcpy moves the bytes the index counts.            *)
Knows ==
  /\ Found => keybuffer_index > 0 /\ (reuses => cached = keybuffer_index)
  /\ pc = "hlt" => cached = 0
  /\ pc = "copy" /\ k < n => keybuffer_index = n - 1

NoEmptyKey == \A b \in 1 .. Len(pending) : pending[b] # Nul

Returns == pc \in {"index", "copy"} => c = read /\ c # Nul

Calm == Kept /\ Knows /\ NoEmptyKey /\ Returns /\ keybuffer_index >= 0

IInv == TypeOK /\ NoStuckModifier /\ (~ torn => Calm)
-----------------------------------------------------------------------------

LEMMA Types ==
  ASSUME TypeOK
  PROVE  /\ keybuffer \in [0 .. BufferSize -> Chars]
         /\ keybuffer_index \in -1 .. BufferSize /\ cached \in 0 .. BufferSize
         /\ c \in Chars /\ n \in 0 .. BufferSize /\ k \in 0 .. n
         /\ pending \in Seq(Chars) /\ read \in Chars /\ Nul \in Chars
         /\ BufferSize \in Nat \ {0} /\ MaxKeys \in Nat /\ presses \in 0 .. MaxKeys
         /\ torn \in BOOLEAN /\ hoisted \in BOOLEAN /\ reuses \in BOOLEAN
         /\ pc \in {"idle", "test", "hlt", "first", "index", "copy"}
         /\ shift \in BOOLEAN /\ altgr \in BOOLEAN /\ capslock \in BOOLEAN
         /\ down \subseteq Modifiers /\ Len(pending) \in Nat
<1>. QED BY KeyInputAssumption DEF TypeOK, Chars

LEMMA CalmFacts ==
  ASSUME IInv, ~ torn
  PROVE  /\ TypeOK /\ Kept /\ Knows /\ NoEmptyKey /\ Returns
         /\ keybuffer_index \in 0 .. BufferSize
<1>1. TypeOK /\ Calm
  BY DEF IInv
<1>2. keybuffer_index \in 0 .. BufferSize
  BY <1>1, Types, SMT DEF Calm
<1>. QED BY <1>1, <1>2 DEF Calm

(* An interrupt moves no character, and leaves the program where it was or *)
(* wakes it.                                                               *)
LEMMA WakeFacts ==
  ASSUME TypeOK, Wake
  PROVE  /\ UNCHANGED <<hoisted, reuses, c, n, k>>
         /\ pc' \in {"idle", "test", "hlt", "first", "index", "copy"} /\ pc' # "hlt"
         /\ pc = "hlt" => pc' = "test"
         /\ pc # "hlt" => pc' = pc /\ cached' = cached
         /\ pc = "hlt" /\ ~ hoisted => cached' = keybuffer_index'
         /\ pc = "hlt" /\ hoisted => cached' = cached
<1>. QED BY Types DEF Wake

LEMMA WakePlace ==
  ASSUME TypeOK, Wake
  PROVE  /\ \A b : (Place(b))' = Place(b)
         /\ Unread' = IF pc = "index" THEN keybuffer_index' - 1 ELSE keybuffer_index'
<1>. QED BY WakeFacts DEF Place, Unread

LEMMA WakeTypes ==
  ASSUME TypeOK, Wake, keybuffer_index' \in 0 .. BufferSize
  PROVE  /\ cached' \in 0 .. BufferSize /\ hoisted' \in BOOLEAN /\ reuses' \in BOOLEAN
         /\ c' \in Chars /\ n' \in 0 .. BufferSize /\ k' \in 0 .. n'
         /\ pc' \in {"idle", "test", "hlt", "first", "index", "copy"}
<1>. QED BY Types, WakeFacts

(* An interrupt that types nothing.                                        *)
LEMMA QuietWake ==
  ASSUME IInv, ~ torn, UNCHANGED <<buffer, pending, read, torn>>, Wake
  PROVE  Calm'
<1>1. /\ UNCHANGED <<keybuffer, keybuffer_index, pending, read, torn>>
      /\ keybuffer_index \in 0 .. BufferSize /\ TypeOK
  BY CalmFacts DEF buffer
<1>2. Kept'
  BY <1>1, CalmFacts, WakePlace DEF Kept, Unread
<1>3. Knows'
  <2>1. CASE pc = "hlt"
    BY <1>1, <2>1, CalmFacts, Types, WakeFacts, SMT DEF Knows, Found
  <2>2. CASE pc # "hlt"
    BY <1>1, <2>2, CalmFacts, WakeFacts DEF Knows, Found
  <2>. QED BY <2>1, <2>2
<1>4. NoEmptyKey'
  BY <1>1, CalmFacts DEF NoEmptyKey
<1>5. Returns'
  BY <1>1, CalmFacts, WakeFacts DEF Returns
<1>. QED BY <1>1, <1>2, <1>3, <1>4, <1>5 DEF Calm
-----------------------------------------------------------------------------
(* A character goes behind those pending.                                  *)
LEMMA TypedCalm ==
  ASSUME IInv, ~ torn, NEW ch \in Chars, ch # Nul, keybuffer_index < BufferSize,
         ~ Tearing(ch), ch # Backspace,
         keybuffer' = [keybuffer EXCEPT ![keybuffer_index] = ch],
         keybuffer_index' = keybuffer_index + 1,
         pending' = Append(pending, ch), UNCHANGED read, Wake
  PROVE  Calm'
<1>. DEFINE i == keybuffer_index
            m == Len(pending)
<1>1. /\ TypeOK /\ Kept /\ Knows /\ i \in 0 .. BufferSize - 1 /\ m \in Nat
      /\ m = Unread /\ pending \in Seq(Chars) /\ n \in Nat /\ k \in Nat
      /\ BufferSize \in Nat
  <2>1. TypeOK /\ Kept /\ Knows /\ i \in 0 .. BufferSize
    BY CalmFacts
  <2>2. i \in 0 .. BufferSize - 1
    BY <2>1, Types, SMT
  <2>. QED BY <2>1, <2>2, Types, SMT DEF Kept
<1>2. ~ (pc = "copy" /\ k < n) /\ ~ (Found /\ reuses)
  BY DEF Tearing
<1>3. /\ Len(pending') = m + 1 /\ pending'[m + 1] = ch
      /\ \A b \in 1 .. m : pending'[b] = pending[b]
  BY <1>1, AppendProperties
<1>4. /\ keybuffer'[i] = ch
      /\ \A b \in 0 .. BufferSize : b # i => keybuffer'[b] = keybuffer[b]
  BY <1>1, Types, SMT
<1>5. Place(m + 1) = i
  BY <1>1, <1>2, SMT DEF Place, Unread
<1>6. \A b \in 1 .. m : Place(b) \in 0 .. BufferSize /\ Place(b) # i
  BY <1>1, <1>2, SMT DEF Place, Unread
<1>7. (\A b : (Place(b))' = Place(b)) /\ Len(pending') = Unread'
  <2>1. Unread' = IF pc = "index" THEN (i + 1) - 1 ELSE i + 1
    BY <1>1, WakePlace
  <2>. QED BY <1>1, <1>3, <2>1, WakePlace, SMT DEF Unread
<1>8. \A b \in 1 .. m : pending'[b] = keybuffer'[Place(b)]
  BY <1>1, <1>3, <1>4, <1>6 DEF Kept
<1>9. Kept'
  <2>1. \A b \in 1 .. m + 1 : b = m + 1 \/ b \in 1 .. m
    BY <1>1, SMT
  <2>. QED BY <1>3, <1>4, <1>5, <1>7, <1>8, <2>1 DEF Kept
<1>10. Knows'
  <2>1. CASE pc = "hlt"
    BY <1>1, <2>1, Types, WakeFacts, SMT DEF Knows, Found
  <2>2. CASE pc # "hlt"
    <3>1. Found' <=> Found
      BY <1>1, <2>2, WakeFacts DEF Found
    <3>. QED BY <1>1, <1>2, <2>2, <3>1, WakeFacts, SMT DEF Knows
  <2>. QED BY <2>1, <2>2
<1>11. NoEmptyKey'
  <2>1. \A b \in 1 .. m + 1 : b = m + 1 \/ b \in 1 .. m
    BY <1>1, SMT
  <2>. QED BY <1>3, <2>1, CalmFacts DEF NoEmptyKey
<1>12. Returns'
  BY <1>1, CalmFacts, WakeFacts DEF Returns
<1>13. keybuffer_index' >= 0
  BY <1>1, SMT
<1>. QED BY <1>9, <1>10, <1>11, <1>12, <1>13 DEF Calm

(* A backspace takes the last one back.                                    *)
LEMMA ErasedCalm ==
  ASSUME IInv, ~ torn, keybuffer_index > 0, ~ Tearing(Backspace),
         keybuffer' = [keybuffer EXCEPT ![keybuffer_index - 1] = Nul],
         keybuffer_index' = keybuffer_index - 1,
         pending' = IF pending = <<>> THEN pending
                    ELSE SubSeq(pending, 1, Len(pending) - 1),
         UNCHANGED read, Wake
  PROVE  Calm'
<1>. DEFINE i == keybuffer_index
            m == Len(pending)
<1>1. /\ TypeOK /\ Kept /\ Knows /\ i \in 1 .. BufferSize /\ m \in Nat
      /\ m = Unread /\ pending \in Seq(Chars) /\ n \in Nat /\ k \in Nat
      /\ BufferSize \in Nat
  <2>1. TypeOK /\ Kept /\ Knows /\ i \in 0 .. BufferSize
    BY CalmFacts
  <2>2. i \in 1 .. BufferSize
    BY <2>1, Types, SMT
  <2>. QED BY <2>1, <2>2, Types, SMT DEF Kept
<1>2. ~ (pc = "copy" /\ k < n) /\ ~ (Found /\ reuses) /\ (Found => i # 1)
  BY DEF Tearing
<1>3. m > 0
  BY <1>1, <1>2, SMT DEF Unread, Found
<1>4. /\ Len(pending') = m - 1
      /\ \A b \in 1 .. m - 1 : pending'[b] = pending[b]
  <2>1. pending # <<>>
    BY <1>1, <1>3
  <2>2. \A b \in 1 .. m - 1 : pending[b] \in Chars
    BY <1>1
  <2>3. pending' = SubSeq(pending, 1, m - 1)
    BY <2>1
  <2>4. /\ Len(SubSeq(pending, 1, m - 1)) = IF 1 <= m - 1 THEN (m - 1) - 1 + 1 ELSE 0
        /\ \A b \in 1 .. (m - 1) - 1 + 1 :
             SubSeq(pending, 1, m - 1)[b] = pending[1 + b - 1]
    BY <1>1, <2>2, SubSeqProperties
  <2>5. (m - 1) - 1 + 1 = m - 1 /\ \A b \in 1 .. m - 1 : 1 + b - 1 = b
    BY <1>1, SMT
  <2>6. Len(pending') = m - 1
    BY <1>1, <1>3, <2>3, <2>4, SMT
  <2>. QED BY <2>3, <2>4, <2>5, <2>6
<1>5. \A b \in 0 .. BufferSize : b # i - 1 => keybuffer'[b] = keybuffer[b]
  BY <1>1, Types, SMT
<1>6. \A b \in 1 .. m - 1 : Place(b) \in 0 .. BufferSize /\ Place(b) # i - 1
  BY <1>1, <1>2, SMT DEF Place, Unread
<1>7. (\A b : (Place(b))' = Place(b)) /\ Len(pending') = Unread'
  <2>1. Unread' = IF pc = "index" THEN (i - 1) - 1 ELSE i - 1
    BY <1>1, WakePlace
  <2>. QED BY <1>1, <1>4, <2>1, WakePlace, SMT DEF Unread
<1>8. \A b \in 1 .. m - 1 : pending'[b] = keybuffer'[Place(b)]
  <2>1. \A b \in 1 .. m - 1 : b \in 1 .. m
    BY <1>1, SMT
  <2>. QED BY <1>1, <1>4, <1>5, <1>6, <2>1 DEF Kept
<1>9. Kept'
  BY <1>4, <1>7, <1>8 DEF Kept
<1>10. Knows'
  <2>1. CASE pc = "hlt"
    BY <1>1, <2>1, Types, WakeFacts, SMT DEF Knows, Found
  <2>2. CASE pc # "hlt"
    <3>1. Found' <=> Found
      BY <1>1, <2>2, WakeFacts DEF Found
    <3>. QED BY <1>1, <1>2, <2>2, <3>1, WakeFacts, SMT DEF Knows
  <2>. QED BY <2>1, <2>2
<1>11. NoEmptyKey'
  <2>1. \A b \in 1 .. m - 1 : b \in 1 .. m
    BY <1>1, SMT
  <2>. QED BY <1>4, <2>1, CalmFacts DEF NoEmptyKey
<1>12. Returns'
  BY <1>1, CalmFacts, WakeFacts DEF Returns
<1>13. keybuffer_index' >= 0
  BY <1>1, SMT
<1>. QED BY <1>9, <1>10, <1>11, <1>12, <1>13 DEF Calm
LEMMA KeyInv ==
  ASSUME IInv, ~ torn, PressedKey
  PROVE  IInv'
<1>1. PICK key \in Codes :
        LET ch == GetChar(key)
        IN  IF ch # Nul /\ Verify(ch)
            THEN /\ Store(ch)
                 /\ pending' = IF ch # Backspace THEN Append(pending, ch)
                               ELSE IF pending = <<>> THEN pending
                               ELSE SubSeq(pending, 1, Len(pending) - 1)
                 /\ torn' = (torn \/ Tearing(ch))
            ELSE UNCHANGED <<buffer, pending, torn>>
  BY DEF PressedKey
<1>. DEFINE ch == GetChar(key)
<1>2. /\ presses < MaxKeys /\ presses' = presses + 1
      /\ UNCHANGED <<shift, altgr, capslock, down, read>> /\ Wake
  BY DEF PressedKey, status
<1>3. ch \in Chars
  BY DEF GetChar, Chars
<1>. HIDE DEF ch
<1>4. TypeOK /\ keybuffer_index \in 0 .. BufferSize
  BY CalmFacts
<1>5. NoStuckModifier'
  BY <1>2 DEF IInv, NoStuckModifier
<1>6. presses' \in 0 .. MaxKeys
  BY <1>2, <1>4, Types, SMT
<1>7. SUFFICES /\ keybuffer' \in [0 .. BufferSize -> Chars]
               /\ keybuffer_index' \in 0 .. BufferSize
               /\ pending' \in Seq(Chars) /\ torn' \in BOOLEAN
               /\ ~ torn' => Calm'
  <2>1. keybuffer_index' \in -1 .. BufferSize /\ keybuffer_index' # -1
    BY <1>4, <1>7, Types, SMT
  <2>2. TypeOK'
    BY <1>2, <1>4, <1>6, <1>7, <2>1, Types, WakeTypes DEF TypeOK
  <2>. QED BY <1>5, <1>7, <2>2 DEF IInv
<1>8. CASE ~ (ch # Nul /\ Verify(ch))
  <2>1. UNCHANGED <<buffer, pending, torn>>
    BY <1>1, <1>8 DEF ch
  <2>2. Calm'
    BY <1>2, <2>1, QuietWake
  <2>. QED BY <1>4, <2>1, <2>2, Types DEF buffer
<1>9. CASE ch # Nul /\ Verify(ch) /\ ch # Backspace
  <2>1. /\ Store(ch) /\ pending' = Append(pending, ch)
        /\ torn' = (torn \/ Tearing(ch))
    BY <1>1, <1>9 DEF ch
  <2>2. /\ keybuffer' = [keybuffer EXCEPT ![keybuffer_index] = ch]
        /\ keybuffer_index' = keybuffer_index + 1
        /\ keybuffer_index < BufferSize
    BY <1>9, <2>1 DEF Store, Verify
  <2>3. ~ torn' => Calm'
    BY <1>2, <1>3, <1>9, <2>1, <2>2, TypedCalm
  <2>4. torn' \in BOOLEAN
    BY <2>1
  <2>5. keybuffer' \in [0 .. BufferSize -> Chars]
    BY <1>3, <1>4, <2>2, Types
  <2>6. keybuffer_index' \in 0 .. BufferSize
    BY <1>4, <2>2, Types, SMT
  <2>7. pending' \in Seq(Chars)
    BY <1>3, <1>4, <2>1, Types, AppendProperties
  <2>. QED BY <2>3, <2>4, <2>5, <2>6, <2>7
<1>10. CASE ch # Nul /\ Verify(ch) /\ ch = Backspace
  <2>1. /\ Store(ch) /\ torn' = (torn \/ Tearing(ch))
        /\ pending' = IF pending = <<>> THEN pending
                      ELSE SubSeq(pending, 1, Len(pending) - 1)
    BY <1>1, <1>10 DEF ch
  <2>2. /\ keybuffer' = [keybuffer EXCEPT ![keybuffer_index - 1] = Nul]
        /\ keybuffer_index' = keybuffer_index - 1
        /\ keybuffer_index > 0
    BY <1>10, <2>1 DEF Store, Verify
  <2>3. ~ torn' => Calm'
    BY <1>2, <1>10, <2>1, <2>2, ErasedCalm
  <2>4. torn' \in BOOLEAN
    BY <2>1
  <2>5. keybuffer' \in [0 .. BufferSize -> Chars]
    BY <1>4, <2>2, Types
  <2>6. keybuffer_index' \in 0 .. BufferSize
    BY <1>4, <2>2, Types, SMT
  <2>7. pending' \in Seq(Chars)
    <3>1. pending \in Seq(Chars) /\ Len(pending) - 1 \in Int
      BY <1>4, Types, SMT
    <3>2. \A b \in 1 .. Len(pending) - 1 : pending[b] \in Chars
      BY <3>1
    <3>3. SubSeq(pending, 1, Len(pending) - 1) \in Seq(Chars)
      BY <3>1, <3>2, SubSeqProperties
    <3>. QED BY <2>1, <3>1, <3>3
  <2>. QED BY <2>3, <2>4, <2>5, <2>6, <2>7
<1>. QED BY <1>8, <1>9, <1>10

(* The modifiers and the timer.                                            *)
LEMMA ModifierInv ==
  ASSUME IInv, ~ torn, PressedModifier \/ Released \/ Tick
  PROVE  IInv'
<1>1. UNCHANGED <<buffer, pending, read, torn>> /\ Wake
  BY DEF PressedModifier, Released, Tick
<1>2. Calm'
  BY <1>1, QuietWake
<1>3. TypeOK /\ keybuffer_index' \in 0 .. BufferSize
      /\ UNCHANGED <<keybuffer, keybuffer_index, pending, read, torn>>
  BY <1>1, CalmFacts DEF buffer
<1>4. /\ shift' \in BOOLEAN /\ altgr' \in BOOLEAN /\ capslock' \in BOOLEAN
      /\ down' \subseteq Modifiers
  <2>1. CASE PressedModifier
    BY <1>3, <2>1, Types DEF PressedModifier
  <2>2. CASE Released
    BY <1>3, <2>2, Types DEF Released, Release
  <2>3. CASE Tick
    BY <1>3, <2>3, Types DEF Tick, status
  <2>. QED BY <2>1, <2>2, <2>3
<1>5. presses' \in 0 .. MaxKeys
  <2>1. \/ presses < MaxKeys /\ presses' = presses + 1
        \/ presses' = presses
    BY DEF PressedModifier, Released, Tick
  <2>. QED BY <1>3, <2>1, Types, SMT
<1>6. TypeOK'
  BY <1>1, <1>3, <1>4, <1>5, Types, WakeTypes DEF TypeOK
<1>7. NoStuckModifier'
  <2>0. NoStuckModifier
    BY DEF IInv
  <2>1. CASE PressedModifier
    BY <2>0, <2>1 DEF PressedModifier, NoStuckModifier
  <2>2. CASE Released
    BY <2>0, <2>2 DEF Released, Release, NoStuckModifier
  <2>3. CASE Tick
    BY <2>0, <2>3 DEF Tick, status, NoStuckModifier
  <2>. QED BY <2>1, <2>2, <2>3
<1>. QED BY <1>2, <1>6, <1>7 DEF IInv
-----------------------------------------------------------------------------
(* The steps of the program keep the history and the modifiers.            *)
LEMMA ProgramTypes ==
  ASSUME IInv, ~ torn, ProgramStep,
         keybuffer' \in [0 .. BufferSize -> Chars],
         keybuffer_index' \in 0 .. BufferSize,
         pc' \in {"idle", "test", "hlt", "first", "index", "copy"},
         cached' \in 0 .. BufferSize, c' \in Chars,
         n' \in 0 .. BufferSize, k' \in 0 .. n',
         pending' \in Seq(Chars), read' \in Chars, Calm'
  PROVE  IInv'
<1>1. TypeOK
  BY CalmFacts
<1>2. UNCHANGED <<shift, altgr, capslock, down, presses, torn, hoisted, reuses>>
  BY DEF ProgramStep, status
<1>3. keybuffer_index' \in -1 .. BufferSize /\ keybuffer_index' # -1
  BY <1>1, Types, SMT
<1>4. TypeOK'
  BY <1>1, <1>2, <1>3, Types DEF TypeOK
<1>5. NoStuckModifier'
  BY <1>2 DEF IInv, NoStuckModifier
<1>. QED BY <1>4, <1>5 DEF IInv

(* bgetch up to the call of __bgetch, and its return: nothing moves.       *)
LEMMA BgetchInv ==
  ASSUME IInv, ~ torn, Call \/ NoKey \/ Suspend \/ Ready \/ Return
  PROVE  IInv'
<1>1. /\ UNCHANGED <<keybuffer, keybuffer_index, n, k, pending, read>>
      /\ ProgramStep /\ reuses' = reuses
      /\ pc' \in {"idle", "test", "hlt", "first", "index", "copy"}
      /\ pc \notin {"index"} /\ pc' \notin {"index", "copy"}
      /\ pc = "copy" => k = n
      /\ cached' = cached \/ cached' = keybuffer_index
      /\ c' = c \/ c' = Nul
  BY DEF Call, NoKey, Suspend, Ready, Return, Transition, buffer, ProgramStep
<1>2. /\ TypeOK /\ Kept /\ Knows /\ NoEmptyKey /\ Returns
      /\ keybuffer_index \in 0 .. BufferSize
  BY CalmFacts
<1>3. Kept'
  <2>1. Unread' = Unread
    BY <1>1 DEF Unread
  <2>2. \A b : (Place(b))' = b - 1 /\ Place(b) = b - 1
    <3>1. ~ (pc = "copy" /\ k < n)
      BY <1>1, <1>2, Types, SMT
    <3>. QED BY <1>1, <3>1 DEF Place
  <2>. QED BY <1>1, <1>2, <2>1, <2>2 DEF Kept
<1>4. Knows'
  <2>1. /\ Found' => keybuffer_index > 0 /\ (reuses => cached' = keybuffer_index)
        /\ pc' = "hlt" => cached' = 0
    <3>1. CASE Call
      BY <1>1, <1>2, <3>1, Types, SMT DEF Call, Transition, Found
    <3>2. CASE NoKey \/ Return
      BY <3>2 DEF NoKey, Return, Transition, Found
    <3>3. CASE Suspend
      BY <3>3 DEF Suspend, Transition, Found
    <3>4. CASE Ready
      BY <1>2, <3>4 DEF Ready, Transition, Found, Knows
    <3>. QED BY <3>1, <3>2, <3>3, <3>4
  <2>. QED BY <1>1, <2>1 DEF Knows
<1>5. Calm'
  <2>1. keybuffer_index' >= 0
    BY <1>1, <1>2, Types, SMT
  <2>. QED BY <1>1, <1>2, <1>3, <1>4, <2>1 DEF Calm, NoEmptyKey, Returns
<1>. QED BY <1>1, <1>2, <1>5, Types, ProgramTypes

(* __bgetch takes the first byte: there is one.                            *)
LEMMA FirstInv ==
  ASSUME IInv, ~ torn, First
  PROVE  IInv'
<1>1. /\ pc = "first" /\ pc' = "index" /\ c' = keybuffer[0]
      /\ UNCHANGED <<keybuffer, keybuffer_index, cached, n, k>> /\ ProgramStep
      /\ reuses' = reuses
  BY DEF First, Transition, buffer, ProgramStep
<1>2. /\ TypeOK /\ Kept /\ Knows /\ NoEmptyKey
      /\ keybuffer_index \in 0 .. BufferSize
  BY CalmFacts
<1>3. keybuffer_index > 0 /\ (reuses => cached = keybuffer_index)
  BY <1>1, <1>2 DEF Knows, Found
<1>4. Len(pending) = keybuffer_index /\ \A b \in 1 .. Len(pending) : Place(b) = b - 1
  BY <1>1, <1>2 DEF Kept, Unread, Place
<1>5. pending \in Seq(Chars) /\ pending # <<>> /\ Len(pending) \in Nat /\ 1 \in 1 .. Len(pending)
  BY <1>2, <1>3, <1>4, Types, SMT
<1>6. /\ read' = Head(pending) /\ pending' = Tail(pending)
  BY <1>5 DEF First
<1>7. /\ read' \in Chars /\ pending' \in Seq(Chars)
      /\ Len(pending') = Len(pending) - 1
      /\ \A b \in 1 .. Len(pending') : pending'[b] = pending[b + 1]
      /\ read' = pending[1]
  BY <1>5, <1>6, HeadTailProperties
<1>8. pending[1] = keybuffer[0] /\ pending[1] # Nul
  <2>1. Place(1) = 0
    BY <1>4, <1>5
  <2>. QED BY <1>2, <1>5, <2>1 DEF Kept, NoEmptyKey
<1>9. ASSUME NEW b \in 1 .. Len(pending')
      PROVE  /\ b + 1 \in 1 .. Len(pending) /\ Place(b + 1) = b
             /\ pending'[b] = keybuffer[b] /\ pending'[b] # Nul
  <2>1. b + 1 \in 1 .. Len(pending) /\ (b + 1) - 1 = b
    BY <1>5, <1>7, SMT
  <2>. QED BY <1>2, <1>4, <1>7, <2>1 DEF Kept, NoEmptyKey
<1>10. Kept'
  <2>1. Len(pending') = Unread'
    BY <1>1, <1>4, <1>7 DEF Unread
  <2>2. \A b : (Place(b))' = b
    BY <1>1 DEF Place
  <2>. QED BY <1>1, <1>9, <2>1, <2>2 DEF Kept
<1>11. Calm'
  <2>1. Knows'
    BY <1>1, <1>3 DEF Knows, Found
  <2>2. NoEmptyKey'
    BY <1>9 DEF NoEmptyKey
  <2>3. Returns'
    BY <1>1, <1>7, <1>8 DEF Returns
  <2>4. keybuffer_index' >= 0
    BY <1>1, <1>2, Types, SMT
  <2>. QED BY <1>10, <2>1, <2>2, <2>3, <2>4 DEF Calm
<1>12. c' \in Chars
  BY <1>1, <1>7, <1>8
<1>. QED BY <1>1, <1>2, <1>7, <1>11, <1>12, Types, ProgramTypes

LEMMA IndexInv ==
  ASSUME IInv, ~ torn, Index
  PROVE  IInv'
<1>1. /\ pc = "index" /\ pc' = "copy" /\ n' = Loaded /\ k' = 0
      /\ keybuffer_index' = Loaded - 1
      /\ UNCHANGED <<keybuffer, cached, c, pending, read>> /\ ProgramStep
  BY DEF Index, Transition
<1>2. /\ TypeOK /\ Kept /\ Knows /\ NoEmptyKey /\ Returns
      /\ keybuffer_index \in 0 .. BufferSize
  BY CalmFacts
<1>3. keybuffer_index > 0 /\ Loaded = keybuffer_index
  BY <1>1, <1>2 DEF Knows, Found, Loaded
<1>4. /\ n' \in 1 .. BufferSize /\ keybuffer_index' = n' - 1 /\ k' \in 0 .. n'
      /\ n' \in 0 .. BufferSize /\ keybuffer_index' \in 0 .. BufferSize
      /\ k' < n' /\ keybuffer_index' >= 0
  BY <1>1, <1>2, <1>3, Types, SMT
<1>5. Kept'
  <2>1. Unread' = Unread
    BY <1>1, <1>3 DEF Unread
  <2>2. \A b \in 1 .. Len(pending) : (Place(b))' = Place(b)
    <3>1. \A b \in 1 .. Len(pending) : b > k'
      BY <1>1, SMT
    <3>. QED BY <1>1, <1>4, <3>1 DEF Place
  <2>. QED BY <1>1, <1>2, <2>1, <2>2 DEF Kept
<1>6. Calm'
  <2>1. Knows'
    BY <1>1, <1>4 DEF Knows, Found
  <2>. QED BY <1>1, <1>2, <1>4, <1>5, <2>1 DEF Calm, NoEmptyKey, Returns
<1>. QED BY <1>1, <1>2, <1>4, <1>6, Types, ProgramTypes

(* memcpy moves the byte of the next character, and no other.              *)
LEMMA CopyInv ==
  ASSUME IInv, ~ torn, CopyByte
  PROVE  IInv'
<1>1. /\ pc = "copy" /\ pc' = "copy" /\ k < n /\ k' = k + 1
      /\ keybuffer' = [keybuffer EXCEPT ![k] = keybuffer[k + 1]]
      /\ UNCHANGED <<keybuffer_index, cached, c, n, pending, read>> /\ ProgramStep
  BY DEF CopyByte
<1>2. /\ TypeOK /\ Kept /\ Knows /\ NoEmptyKey /\ Returns
      /\ keybuffer_index \in 0 .. BufferSize
  BY CalmFacts
<1>3. /\ keybuffer_index = n - 1 /\ k \in Nat /\ n \in Nat /\ BufferSize \in Nat
      /\ n <= BufferSize /\ k + 1 \in 0 .. BufferSize /\ k \in 0 .. BufferSize
      /\ k' \in 0 .. n /\ Len(pending) = n - 1
  BY <1>1, <1>2, Types, SMT DEF Knows, Kept, Unread
<1>4. /\ keybuffer' \in [0 .. BufferSize -> Chars] /\ keybuffer'[k] = keybuffer[k + 1]
      /\ \A b \in 0 .. BufferSize : b # k => keybuffer'[b] = keybuffer[b]
  BY <1>1, <1>2, <1>3, Types
<1>5. ASSUME NEW b \in 1 .. Len(pending)
      PROVE  keybuffer'[(Place(b))'] = keybuffer[Place(b)]
  <2>1. CASE b = k + 1
    <3>1. Place(b) = k + 1 /\ (Place(b))' = k
      BY <1>1, <1>3, <2>1, SMT DEF Place
    <3>. QED BY <1>4, <3>1
  <2>2. CASE b # k + 1
    <3>1. Place(b) \in 0 .. BufferSize /\ (Place(b))' = Place(b) /\ Place(b) # k
      BY <1>1, <1>3, <1>5, <2>2, SMT DEF Place
    <3>. QED BY <1>4, <3>1
  <2>. QED BY <2>1, <2>2
<1>6. Kept'
  <2>1. Unread' = Unread
    BY <1>1 DEF Unread
  <2>. QED BY <1>1, <1>2, <1>5, <2>1 DEF Kept
<1>7. Calm'
  <2>1. Knows'
    BY <1>1, <1>3 DEF Knows, Found
  <2>2. keybuffer_index' >= 0
    BY <1>1, <1>2, Types, SMT
  <2>. QED BY <1>1, <1>2, <1>6, <2>1, <2>2 DEF Calm, NoEmptyKey, Returns
<1>. QED BY <1>1, <1>2, <1>3, <1>4, <1>7, Types, ProgramTypes

(* Whatever keys come between whatever steps of bgetch, outside the        *)
(* windows of Tearing, the buffer and the program agree.                   *)
THEOREM InputInductive == Spec => []IInv
<1>1. Init => IInv
  <2>. SUFFICES ASSUME Init PROVE IInv
    OBVIOUS
  <2>1. TypeOK
    <3>1. <<>> \in Seq(Chars) /\ Nul \in Chars
      BY DEF Chars
    <3>2. keybuffer \in [0 .. BufferSize -> Chars]
      BY <3>1 DEF Init
    <3>3. /\ keybuffer_index \in -1 .. BufferSize /\ keybuffer_index # -1
          /\ cached \in 0 .. BufferSize /\ n \in 0 .. BufferSize /\ k \in 0 .. n
          /\ presses \in 0 .. MaxKeys
      BY KeyInputAssumption, SMT DEF Init
    <3>. QED BY <3>1, <3>2, <3>3 DEF Init, TypeOK
  <2>2. Len(pending) = 0 /\ keybuffer_index = 0 /\ pc = "idle"
    BY DEF Init
  <2>3. Kept /\ NoEmptyKey
    BY <2>2 DEF Kept, Unread, NoEmptyKey
  <2>4. Knows /\ Returns /\ keybuffer_index >= 0
    BY <2>2 DEF Knows, Found, Returns
  <2>. QED BY <2>1, <2>3, <2>4 DEF IInv, Calm, NoStuckModifier, Init
<1>2. ASSUME IInv, [Next]_vars PROVE IInv'
  <2>1. CASE UNCHANGED vars
    BY <1>2, <2>1 DEF vars, buffer, status, program, IInv, TypeOK, Calm, Kept, Place,
       Unread, Knows, Found, NoEmptyKey, Returns, NoStuckModifier
  <2>2. CASE Next
    BY <1>2, <2>2, KeyInv, ModifierInv, BgetchInv, FirstInv, IndexInv, CopyInv
       DEF Next, Interrupt, Program
  <2>. QED BY <1>2, <2>1, <2>2
<1>. QED BY <1>1, <1>2, PTL DEF Spec

(* Outside the windows of Tearing every key typed is read once and in      *)
(* order, also while memcpy moves the buffer, the index stays in the       *)
(* buffer, and no modifier sticks (input.c, kbd.c).                        *)
THEOREM KeysAreKept == Spec => []KeysKept
<1>1. ASSUME IInv PROVE KeysKept
  <2>1. TypeOK /\ NoStuckModifier
    BY <1>1 DEF IInv
  <2>2. BufferHoldsPending
    BY <1>1 DEF IInv, Calm, Kept, Unread, Place, BufferHoldsPending
  <2>3. ReadInOrder
    BY <1>1 DEF IInv, Calm, Returns, ReadInOrder
  <2>. QED BY <2>1, <2>2, <2>3 DEF KeysKept
<1>. QED BY <1>1, InputInductive, PTL
==============================================================================
