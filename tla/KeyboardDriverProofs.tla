------------------------ MODULE KeyboardDriverProofs ------------------------
(***************************************************************************)
(* The keyboard driver gives what the user typed, for any keys, queue      *)
(* sizes and number of events, wherever the interrupt comes.               *)
(*                                                                         *)
(* What the invariant follows is the codes that are still on their way,    *)
(* from the keyboard through the raw queue to the one the translator       *)
(* holds.  As long as none is lost, translating them all from the flags as *)
(* they are would give exactly the characters that are missing and leave   *)
(* the flags as the user's keys are.  Whether or not one is lost, the keys *)
(* given and the keys on their way are among the keys typed, in order.     *)
(***************************************************************************)
EXTENDS KeyboardDriver, RingQueue, FiniteSetTheorems, SequenceTheorems, TLAPS

Codes == {Ack, Prefix} \cup [key : KeyNames, up : BOOLEAN]
Chars == {"none", "upper", "lower"} \X (KeyNames \cup {"NUL"})

Types ==
    /\ raw_key \in Codes \cup {None}
    /\ raw_keydata_q \in Seq(Codes) /\ Len(raw_keydata_q) <= RAW_KEY_DATA_Q_SIZE
    /\ user_keydata_q \in Seq(Chars) /\ Len(user_keydata_q) <= USER_KEY_DATA_Q_SIZE
    /\ wire \in Seq(Codes) /\ read \in Seq(Chars) /\ typed \in Seq(Chars)
    /\ shift_key_pressed \in BOOLEAN /\ ctrl_key_pressed \in BOOLEAN /\ alt_key_pressed \in BOOLEAN
    /\ indicator_status \subseteq Locks
    /\ down \subseteq Keys /\ caps \in BOOLEAN /\ lost \in BOOLEAN
    /\ overruled \subseteq down /\ "alt" \notin overruled

\* The codes on their way, in the order the translator will see them.
Popped == IF raw_key = None THEN << >> ELSE <<raw_key>>
Pending == (Popped \o raw_keydata_q) \o wire

given == read \o user_keydata_q

\* What the translator makes of a code: its flags, and how many characters it
\* has given.
States == [shift : BOOLEAN, ctrl : BOOLEAN, alt : BOOLEAN, caps : BOOLEAN, n : Nat]
Gives(code) == ~code.up /\ code.key \notin Locks
Flag(flag, keys, code) == IF code.key \in keys THEN ~code.up ELSE flag
After(s, code) ==
    [shift |-> Flag(s.shift, {"lshift", "rshift"}, code),
     ctrl |-> Flag(s.ctrl, {"ctrl", "rctrl"}, code),
     alt |-> Flag(s.alt, {"alt"}, code),
     caps |-> IF code.key = "capslock" /\ ~code.up THEN ~s.caps ELSE s.caps,
     n |-> IF Gives(code) THEN s.n + 1 ELSE s.n]

\* Character number s.n of those typed, after the code that gives it.
GivesTyped(s, code, chars) ==
    /\ s.n \in 1 .. Len(chars)
    /\ chars[s.n] = m_AsciiCode(s.shift, s.caps, code.key)

IsRun(run, codes, start) ==
    /\ run \in [0 .. Len(codes) -> States]
    /\ run[0] = start
    /\ \A i \in 1 .. Len(codes) : run[i] = After(run[i - 1], codes[i])

\* A state in which the flags are those of the keys that count and every
\* character is given.
UpToDate(s, chars, keys, capslock) ==
    /\ s.shift = ShiftIsDown(keys)
    /\ s.ctrl = (keys \cap {"ctrl", "rctrl"} # {})
    /\ s.alt = ("alt" \in keys) /\ s.caps = capslock
    /\ s.n = Len(chars)

Catches(run, codes, chars, keys, capslock) ==
    /\ \A i \in 1 .. Len(codes) : Gives(codes[i]) => GivesTyped(run[i], codes[i], chars)
    /\ UpToDate(run[Len(codes)], chars, keys, capslock)
CatchesUp(codes, start, chars, keys, capslock) ==
    \E run \in [0 .. Len(codes) -> States] :
        IsRun(run, codes, start) /\ Catches(run, codes, chars, keys, capslock)

\* The translator as it is.
Now ==
    [shift |-> shift_key_pressed, ctrl |-> ctrl_key_pressed, alt |-> alt_key_pressed,
     caps |-> "capslock" \in indicator_status, n |-> Len(given)]

GivenIsTyped ==
    /\ Len(given) <= Len(typed)
    /\ \A i \in 1 .. Len(given) : given[i] = typed[i]

\* The keys of the characters given, and of those on their way, among those of
\* the characters typed.
KeyOfCode(code) == IF code.key \in Modifiers THEN "NUL" ELSE code.key
Places(place, chars, all) ==
    /\ place \in [1 .. Len(chars) -> 1 .. Len(all)]
    /\ \A i \in 1 .. Len(chars) : KeyIn(chars[i]) = KeyIn(all[place[i]])
    /\ \A i, j \in 1 .. Len(chars) : i < j => place[i] < place[j]
Sources(source, codes, place, chars, all) ==
    /\ source \in [1 .. Len(codes) -> 0 .. Len(all)]
    /\ \A i \in 1 .. Len(codes) : Gives(codes[i]) =>
         /\ source[i] > 0 /\ KeyOfCode(codes[i]) = KeyIn(all[source[i]])
         /\ \A j \in 1 .. Len(chars) : place[j] < source[i]
    /\ \A i, j \in 1 .. Len(codes) :
         i < j /\ Gives(codes[i]) /\ Gives(codes[j]) => source[i] < source[j]
AmongTyped(codes, chars, all) ==
    \E place \in [1 .. Len(chars) -> 1 .. Len(all)], source \in [1 .. Len(codes) -> 0 .. Len(all)] :
        Places(place, chars, all) /\ Sources(source, codes, place, chars, all)

KInv ==
    /\ Types
    /\ ~lost => CatchesUp(Pending, Now, typed, Counting, caps) /\ GivenIsTyped
    /\ AmongTyped(Pending, given, typed)

----------------------------------------------------------------------------
(* Runs of the translator over codes that come and go.                     *)

LEMMA CodeFields ==
    /\ Ack.key = "ack" /\ Ack.up = TRUE /\ Prefix.key = "prefix" /\ Prefix.up = TRUE
    /\ \A key, up : Code(key, up).key = key /\ Code(key, up).up = up
    /\ None.key = "none" /\ None.up = FALSE
BY DEF Ack, Prefix, Code, None

LEMMA AfterIsState ==
    ASSUME NEW s \in States, NEW code \in Codes
    PROVE  After(s, code) \in States
<1>1. s.shift \in BOOLEAN /\ s.ctrl \in BOOLEAN /\ s.alt \in BOOLEAN /\ s.caps \in BOOLEAN /\ s.n \in Nat
  BY DEF States
<1>2. code.up \in BOOLEAN
  <2>1. CASE code \in {Ack, Prefix}
    BY <2>1, CodeFields
  <2>2. CASE code \in [key : KeyNames, up : BOOLEAN]
    BY <2>2
  <2> QED  BY <2>1, <2>2 DEF Codes
<1>3. \A flag \in BOOLEAN : \A keys : Flag(flag, keys, code) \in BOOLEAN
  BY <1>2 DEF Flag
<1>4. (IF code.key = "capslock" /\ ~code.up THEN ~s.caps ELSE s.caps) \in BOOLEAN
  BY <1>1
<1>5. (IF Gives(code) THEN s.n + 1 ELSE s.n) \in Nat
  BY <1>1
<1> QED  BY <1>1, <1>3, <1>4, <1>5 DEF After, States

\* What the state after a code is made of.
LEMMA AfterFields ==
    ASSUME NEW s, NEW code
    PROVE  /\ After(s, code).shift = Flag(s.shift, {"lshift", "rshift"}, code)
           /\ After(s, code).ctrl = Flag(s.ctrl, {"ctrl", "rctrl"}, code)
           /\ After(s, code).alt = Flag(s.alt, {"alt"}, code)
           /\ After(s, code).caps = IF code.key = "capslock" /\ ~code.up THEN ~s.caps ELSE s.caps
           /\ After(s, code).n = IF Gives(code) THEN s.n + 1 ELSE s.n
BY DEF After

\* The codes without one of them.
Without(codes, p, rest) ==
    /\ Len(rest) = Len(codes) - 1
    /\ \A i \in 1 .. Len(rest) : rest[i] = IF i < p THEN codes[i] ELSE codes[i + 1]

\* A code that changes nothing can be left out.
LEMMA SilentLeftOut ==
    ASSUME NEW codes \in Seq(Codes), NEW rest \in Seq(Codes), NEW p \in 1 .. Len(codes),
           Without(codes, p, rest), NEW start, NEW chars, NEW keys, NEW capslock,
           \A s \in States : After(s, codes[p]) = s,
           CatchesUp(codes, start, chars, keys, capslock)
    PROVE  CatchesUp(rest, start, chars, keys, capslock)
<1>1. PICK run \in [0 .. Len(codes) -> States] :
        IsRun(run, codes, start) /\ Catches(run, codes, chars, keys, capslock)
  BY DEF CatchesUp
<1>2. Len(codes) \in Nat /\ Len(rest) \in Nat /\ Len(rest) = Len(codes) - 1
  BY LenProperties DEF Without
<1>3. DEFINE new == [i \in 0 .. Len(rest) |-> IF i < p THEN run[i] ELSE run[i + 1]]
<1>4. new \in [0 .. Len(rest) -> States]
  BY <1>2
<1>5. run[p] = run[p - 1]
  <2>1. run[p] = After(run[p - 1], codes[p])
    BY <1>1 DEF IsRun
  <2>2. run[p - 1] \in States
    <3>1. p - 1 \in 0 .. Len(codes)
      BY <1>2
    <3> QED  BY <3>1
  <2> QED  BY <2>1, <2>2
<1>6. ASSUME NEW i \in 1 .. Len(rest)
      PROVE  /\ rest[i] = IF i < p THEN codes[i] ELSE codes[i + 1]
             /\ new[i] = IF i < p THEN run[i] ELSE run[i + 1]
             /\ new[i - 1] = IF i <= p THEN run[i - 1] ELSE run[i]
  <2>1. i \in 0 .. Len(rest) /\ i - 1 \in 0 .. Len(rest) /\ (i - 1) + 1 = i /\ (i - 1 < p <=> i <= p)
    BY <1>2
  <2>2. new[i] = IF i < p THEN run[i] ELSE run[i + 1]
    BY <2>1
  <2>3. new[i - 1] = IF i - 1 < p THEN run[i - 1] ELSE run[(i - 1) + 1]
    BY <2>1
  <2> QED  BY <2>1, <2>2, <2>3 DEF Without
<1>7. \A i \in 1 .. Len(codes) : run[i] = After(run[i - 1], codes[i])
  BY <1>1 DEF IsRun
<1>8. ASSUME NEW i \in 1 .. Len(rest) PROVE new[i] = After(new[i - 1], rest[i])
  <2>1. CASE i < p
    <3>1. i \in 1 .. Len(codes) /\ i <= p
      BY <2>1, <1>2
    <3> QED  BY <2>1, <3>1, <1>6, <1>7
  <2>2. CASE i >= p
    <3>1. i + 1 \in 1 .. Len(codes) /\ (i + 1) - 1 = i /\ ~(i < p)
      BY <2>2, <1>2
    <3>2. run[i + 1] = After(run[i], codes[i + 1])
      BY <3>1, <1>7
    <3>3. new[i - 1] = run[i]
      BY <1>6, <1>5, <2>2
    <3> QED  BY <3>1, <3>2, <3>3, <1>6
  <2> QED  BY <2>1, <2>2, <1>2
<1>9. new[0] = start
  BY <1>1, <1>2, <1>5 DEF IsRun
<1>10. new[Len(rest)] = run[Len(codes)]
  BY <1>2, <1>5
<1> HIDE DEF new
<1>11. ASSUME NEW i \in 1 .. Len(rest), Gives(rest[i]) PROVE GivesTyped(new[i], rest[i], chars)
  <2>1. i \in 1 .. Len(codes) /\ i + 1 \in 1 .. Len(codes)
    BY <1>2
  <2>2. CASE i < p
    <3>1. rest[i] = codes[i] /\ new[i] = run[i]
      BY <2>2, <1>6, <1>11, <1>2
    <3> QED  BY <2>1, <3>1, <1>1, <1>11 DEF Catches
  <2>3. CASE ~(i < p)
    <3>1. rest[i] = codes[i + 1] /\ new[i] = run[i + 1]
      BY <2>3, <1>6, <1>11, <1>2
    <3> QED  BY <2>1, <3>1, <1>1, <1>11 DEF Catches
  <2> QED  BY <2>2, <2>3
<1>12. IsRun(new, rest, start)
  BY <1>4, <1>8, <1>9 DEF IsRun
<1>13. Catches(new, rest, chars, keys, capslock)
  BY <1>1, <1>10, <1>11 DEF Catches
<1> QED  BY <1>4, <1>12, <1>13 DEF CatchesUp

\* The translator takes the first code: the rest catches up from where it is then.
LEMMA FirstTaken ==
    ASSUME NEW codes \in Seq(Codes), NEW rest \in Seq(Codes), codes # << >>,
           Without(codes, 1, rest), NEW start, NEW chars, NEW keys, NEW capslock,
           CatchesUp(codes, start, chars, keys, capslock)
    PROVE  /\ CatchesUp(rest, After(start, codes[1]), chars, keys, capslock)
           /\ Gives(codes[1]) => GivesTyped(After(start, codes[1]), codes[1], chars)
<1>1. PICK run \in [0 .. Len(codes) -> States] :
        IsRun(run, codes, start) /\ Catches(run, codes, chars, keys, capslock)
  BY DEF CatchesUp
<1>2. Len(codes) \in Nat /\ Len(codes) > 0 /\ Len(rest) \in Nat /\ Len(rest) = Len(codes) - 1
  BY LenProperties, EmptySeq DEF Without
<1>3. DEFINE new == [i \in 0 .. Len(rest) |-> run[i + 1]]
<1>4. new \in [0 .. Len(rest) -> States]
  BY <1>2
<1>5. run[1] = After(start, codes[1])
  BY <1>1, <1>2 DEF IsRun
<1>6. \A i \in 1 .. Len(rest) : /\ rest[i] = codes[i + 1] /\ new[i] = run[i + 1]
                                /\ new[i - 1] = run[i] /\ i + 1 \in 1 .. Len(codes)
  BY <1>2 DEF Without
<1>7. \A i \in 1 .. Len(codes) : run[i] = After(run[i - 1], codes[i])
  BY <1>1 DEF IsRun
<1>8. ASSUME NEW i \in 1 .. Len(rest) PROVE new[i] = After(new[i - 1], rest[i])
  <2>1. i + 1 \in 1 .. Len(codes) /\ (i + 1) - 1 = i
    BY <1>2
  <2>2. run[i + 1] = After(run[i], codes[i + 1])
    BY <2>1, <1>7
  <2> QED  BY <2>2, <1>6
<1>9. new[0] = run[1] /\ new[Len(rest)] = run[Len(codes)]
  BY <1>2
<1>10. \A i \in 1 .. Len(rest) : Gives(rest[i]) => GivesTyped(new[i], rest[i], chars)
  BY <1>6, <1>1 DEF Catches
<1> HIDE DEF new
<1>11. IsRun(new, rest, After(start, codes[1]))
  BY <1>4, <1>5, <1>8, <1>9 DEF IsRun
<1>12. Catches(new, rest, chars, keys, capslock)
  BY <1>1, <1>9, <1>10 DEF Catches
<1>13. Gives(codes[1]) => GivesTyped(run[1], codes[1], chars)
  BY <1>1, <1>2 DEF Catches
<1> QED  BY <1>4, <1>5, <1>11, <1>12, <1>13 DEF CatchesUp

\* A new code comes last: it is translated in the state all the others leave,
\* and the user must be where it takes that state.
LEMMA LastAdded ==
    ASSUME NEW codes \in Seq(Codes), NEW code \in Codes, NEW start,
           NEW chars \in Seq(Chars), NEW keys, NEW capslock,
           NEW chars2 \in Seq(Chars), NEW keys2, NEW capslock2,
           Len(chars2) >= Len(chars), \A i \in 1 .. Len(chars) : chars2[i] = chars[i],
           \A s \in States : UpToDate(s, chars, keys, capslock) =>
               /\ UpToDate(After(s, code), chars2, keys2, capslock2)
               /\ Gives(code) => GivesTyped(After(s, code), code, chars2),
           CatchesUp(codes, start, chars, keys, capslock)
    PROVE  CatchesUp(Append(codes, code), start, chars2, keys2, capslock2)
<1>1. PICK run \in [0 .. Len(codes) -> States] :
        IsRun(run, codes, start) /\ Catches(run, codes, chars, keys, capslock)
  BY DEF CatchesUp
<1>2. DEFINE more == Append(codes, code)
             last == Len(codes) + 1
             end == After(run[Len(codes)], code)
             new == [i \in 0 .. last |-> IF i = last THEN end ELSE run[i]]
<1>3. /\ Len(codes) \in Nat /\ more \in Seq(Codes) /\ Len(more) = last /\ more[last] = code
      /\ \A i \in 1 .. Len(codes) : more[i] = codes[i]
  BY LenProperties, AppendProperties
<1>4. run[Len(codes)] \in States
  BY <1>1, <1>3
<1>5. end \in States
  BY <1>4, AfterIsState
<1>6. /\ UpToDate(end, chars2, keys2, capslock2)
      /\ Gives(code) => GivesTyped(end, code, chars2)
  BY <1>1, <1>4 DEF Catches
<1> HIDE DEF more, end
<1>7. new \in [0 .. last -> States]
  BY <1>1, <1>3, <1>5
<1>8. /\ new[0] = run[0] /\ new[last] = end /\ new[last - 1] = run[Len(codes)]
      /\ \A i \in 1 .. Len(codes) : new[i] = run[i] /\ new[i - 1] = run[i - 1]
  BY <1>3
<1>9. ASSUME NEW i \in 1 .. last PROVE new[i] = After(new[i - 1], more[i])
  <2>1. CASE i = last
    BY <2>1, <1>3, <1>8 DEF end
  <2>2. CASE i # last
    <3>1. i \in 1 .. Len(codes)
      BY <2>2, <1>3
    <3> QED  BY <3>1, <1>1, <1>3, <1>8 DEF IsRun
  <2> QED  BY <2>1, <2>2
<1>10. ASSUME NEW i \in 1 .. last, Gives(more[i]) PROVE GivesTyped(new[i], more[i], chars2)
  <2>1. CASE i = last
    BY <2>1, <1>3, <1>6, <1>8, <1>10
  <2>2. CASE i # last
    <3>1. i \in 1 .. Len(codes)
      BY <2>2, <1>3
    <3>2. GivesTyped(run[i], codes[i], chars)
      BY <3>1, <1>1, <1>3, <1>10 DEF Catches
    <3>3. Len(chars) \in Nat /\ Len(chars2) \in Nat
      BY LenProperties
    <3>4. GivesTyped(run[i], codes[i], chars2)
      BY <3>2, <3>3 DEF GivesTyped
    <3> QED  BY <3>1, <3>4, <1>3, <1>8
  <2> QED  BY <2>1, <2>2
<1> HIDE DEF new
<1>11. IsRun(new, more, start)
  <2>1. new \in [0 .. Len(more) -> States]
    BY <1>3, <1>7
  <2>2. new[0] = start
    BY <1>1, <1>8 DEF IsRun
  <2> QED  BY <2>1, <2>2, <1>3, <1>9 DEF IsRun
<1>12. Catches(new, more, chars2, keys2, capslock2)
  BY <1>3, <1>6, <1>8, <1>10 DEF Catches
<1>13. new \in [0 .. Len(more) -> States]
  BY <1>3, <1>7
<1>14. CatchesUp(more, start, chars2, keys2, capslock2)
  BY <1>11, <1>12, <1>13 DEF CatchesUp
<1> QED  BY <1>14 DEF more

----------------------------------------------------------------------------
(* The keys on their way among those typed.                                *)

\* A code that is lost, or gives nothing, leaves the others in their places.
LEMMA SourceLeftOut ==
    ASSUME NEW codes \in Seq(Codes), NEW rest \in Seq(Codes), NEW p \in 1 .. Len(codes),
           Without(codes, p, rest), NEW chars, NEW all,
           AmongTyped(codes, chars, all)
    PROVE  AmongTyped(rest, chars, all)
<1>1. PICK place \in [1 .. Len(chars) -> 1 .. Len(all)], source \in [1 .. Len(codes) -> 0 .. Len(all)] :
        Places(place, chars, all) /\ Sources(source, codes, place, chars, all)
  BY DEF AmongTyped
<1>2. Len(codes) \in Nat /\ Len(rest) \in Nat /\ Len(rest) = Len(codes) - 1
  BY LenProperties DEF Without
<1>3. DEFINE old(i) == IF i < p THEN i ELSE i + 1
             new == [i \in 1 .. Len(rest) |-> source[old(i)]]
<1>4. /\ \A i \in 1 .. Len(rest) : old(i) \in 1 .. Len(codes)
      /\ \A i, j \in 1 .. Len(rest) : i < j => old(i) < old(j)
  BY <1>2
<1>5. \A i \in 1 .. Len(rest) : rest[i] = codes[old(i)]
  BY <1>2 DEF Without
<1> HIDE DEF old
<1>6. \A i \in 1 .. Len(rest) : new[i] = source[old(i)]
  OBVIOUS
<1>7. new \in [1 .. Len(rest) -> 0 .. Len(all)]
  BY <1>4
<1> HIDE DEF new
<1>8. Sources(new, rest, place, chars, all)
  <2>1. ASSUME NEW i \in 1 .. Len(rest), Gives(rest[i])
        PROVE  /\ new[i] > 0 /\ KeyOfCode(rest[i]) = KeyIn(all[new[i]])
               /\ \A j \in 1 .. Len(chars) : place[j] < new[i]
    BY <2>1, <1>1, <1>4, <1>5, <1>6 DEF Sources
  <2>2. ASSUME NEW i \in 1 .. Len(rest), NEW j \in 1 .. Len(rest), i < j, Gives(rest[i]), Gives(rest[j])
        PROVE  new[i] < new[j]
    BY <2>2, <1>1, <1>4, <1>5, <1>6 DEF Sources
  <2> QED  BY <2>1, <2>2, <1>7 DEF Sources
<1> QED  BY <1>1, <1>7, <1>8 DEF AmongTyped

\* The translator gives the character of the first code: it comes after all
\* those given, and before all those on their way.
LEMMA SourceTaken ==
    ASSUME NEW codes \in Seq(Codes), NEW rest \in Seq(Codes), codes # << >>,
           Without(codes, 1, rest), NEW chars \in Seq(Chars), NEW all,
           Len(all) \in Nat, NEW char \in Chars,
           Gives(codes[1]), KeyIn(char) = KeyOfCode(codes[1]),
           AmongTyped(codes, chars, all)
    PROVE  AmongTyped(rest, Append(chars, char), all)
<1>1. PICK place \in [1 .. Len(chars) -> 1 .. Len(all)], source \in [1 .. Len(codes) -> 0 .. Len(all)] :
        Places(place, chars, all) /\ Sources(source, codes, place, chars, all)
  BY DEF AmongTyped
<1>2. Len(codes) \in Nat /\ Len(codes) > 0 /\ Len(rest) \in Nat /\ Len(rest) = Len(codes) - 1
  BY LenProperties, EmptySeq DEF Without
<1>3. \A i \in 1 .. Len(rest) : rest[i] = codes[i + 1] /\ i + 1 \in 1 .. Len(codes)
  BY <1>2 DEF Without
<1>4. DEFINE new == [i \in 1 .. Len(rest) |-> source[i + 1]]
             more == Append(chars, char)
             last == Len(chars) + 1
             place2 == [i \in 1 .. last |-> IF i = last THEN source[1] ELSE place[i]]
<1>5. /\ Len(chars) \in Nat /\ Len(more) = last /\ more[last] = char
      /\ \A i \in 1 .. Len(chars) : more[i] = chars[i]
  BY LenProperties, AppendProperties
<1>6. /\ source[1] \in 1 .. Len(all) /\ KeyIn(char) = KeyIn(all[source[1]])
      /\ \A j \in 1 .. Len(chars) : place[j] < source[1]
      /\ \A i \in 1 .. Len(rest) : Gives(rest[i]) => source[1] < source[i + 1]
  <2>1. 1 \in 1 .. Len(codes)
    BY <1>2
  <2>2. source[1] \in 0 .. Len(all) /\ source[1] > 0
    BY <2>1, <1>1 DEF Sources
  <2>3. ASSUME NEW i \in 1 .. Len(rest), Gives(rest[i]) PROVE source[1] < source[i + 1]
    <3>1. i + 1 \in 1 .. Len(codes) /\ 1 < i + 1 /\ Gives(codes[i + 1])
      BY <1>2, <1>3, <2>3
    <3> QED  BY <2>1, <3>1, <1>1 DEF Sources
  <2> QED  BY <2>1, <2>2, <2>3, <1>1 DEF Sources
<1>7. new \in [1 .. Len(rest) -> 0 .. Len(all)] /\ \A i \in 1 .. Len(rest) : new[i] = source[i + 1]
  BY <1>3
<1>8. /\ place2 \in [1 .. last -> 1 .. Len(all)] /\ place2[last] = source[1]
      /\ \A i \in 1 .. Len(chars) : place2[i] = place[i]
      /\ \A i \in 1 .. last : i = last \/ i \in 1 .. Len(chars)
  BY <1>5, <1>6
<1> HIDE DEF new, more, place2
<1>9. Places(place2, more, all)
  <2>1. ASSUME NEW i \in 1 .. last PROVE KeyIn(more[i]) = KeyIn(all[place2[i]])
    BY <1>1, <1>5, <1>6, <1>8 DEF Places
  <2>2. ASSUME NEW i \in 1 .. last, NEW j \in 1 .. last, i < j PROVE place2[i] < place2[j]
    <3>1. i \in 1 .. Len(chars)
      BY <2>2, <1>5
    <3> QED  BY <2>2, <3>1, <1>1, <1>6, <1>8 DEF Places
  <2> QED  BY <2>1, <2>2, <1>5, <1>8 DEF Places
<1>10. Sources(new, rest, place2, more, all)
  <2>1. ASSUME NEW i \in 1 .. Len(rest), Gives(rest[i])
        PROVE  new[i] > 0 /\ KeyOfCode(rest[i]) = KeyIn(all[new[i]])
    BY <2>1, <1>1, <1>3, <1>7 DEF Sources
  <2>2. ASSUME NEW i \in 1 .. Len(rest), Gives(rest[i]), NEW j \in 1 .. last
        PROVE  place2[j] < new[i]
    <3>1. CASE j = last
      BY <3>1, <2>2, <1>6, <1>7, <1>8
    <3>2. CASE j \in 1 .. Len(chars)
      BY <3>2, <2>2, <1>1, <1>3, <1>7, <1>8 DEF Sources
    <3> QED  BY <3>1, <3>2, <1>8
  <2>3. ASSUME NEW i \in 1 .. Len(rest), NEW j \in 1 .. Len(rest), i < j, Gives(rest[i]), Gives(rest[j])
        PROVE  new[i] < new[j]
    <3>1. /\ i + 1 \in 1 .. Len(codes) /\ j + 1 \in 1 .. Len(codes) /\ i + 1 < j + 1
          /\ Gives(codes[i + 1]) /\ Gives(codes[j + 1])
      BY <2>3, <1>3
    <3>2. source[i + 1] < source[j + 1]
      BY <3>1, <1>1 DEF Sources
    <3> QED  BY <3>2, <1>7
  <2> QED  BY <2>1, <2>2, <2>3, <1>5, <1>7 DEF Sources
<1>11. place2 \in [1 .. Len(more) -> 1 .. Len(all)]
  BY <1>5, <1>8
<1>12. AmongTyped(rest, more, all)
  BY <1>7, <1>9, <1>10, <1>11 DEF AmongTyped
<1> QED  BY <1>12 DEF more

\* A new code that gives nothing comes last.
LEMMA SilentAdded ==
    ASSUME NEW codes \in Seq(Codes), NEW code \in Codes, ~Gives(code), NEW chars, NEW all,
           Len(all) \in Nat, AmongTyped(codes, chars, all)
    PROVE  AmongTyped(Append(codes, code), chars, all)
<1>1. PICK place \in [1 .. Len(chars) -> 1 .. Len(all)], source \in [1 .. Len(codes) -> 0 .. Len(all)] :
        Places(place, chars, all) /\ Sources(source, codes, place, chars, all)
  BY DEF AmongTyped
<1>2. DEFINE more == Append(codes, code)
             last == Len(codes) + 1
             new == [i \in 1 .. last |-> IF i = last THEN 0 ELSE source[i]]
<1>3. /\ Len(codes) \in Nat /\ Len(more) = last /\ more[last] = code
      /\ \A i \in 1 .. Len(codes) : more[i] = codes[i]
  BY LenProperties, AppendProperties
<1>4. /\ new \in [1 .. last -> 0 .. Len(all)] /\ \A i \in 1 .. Len(codes) : new[i] = source[i]
      /\ \A i \in 1 .. last : i = last \/ i \in 1 .. Len(codes)
  BY <1>3
<1> HIDE DEF more, new
<1>5. \A i \in 1 .. last : Gives(more[i]) =>
        i \in 1 .. Len(codes) /\ Gives(codes[i]) /\ more[i] = codes[i] /\ new[i] = source[i]
  BY <1>3, <1>4
<1>6. Sources(new, more, place, chars, all)
  BY <1>1, <1>3, <1>4, <1>5 DEF Sources
<1>7. new \in [1 .. Len(more) -> 0 .. Len(all)]
  BY <1>3, <1>4
<1>8. AmongTyped(more, chars, all)
  BY <1>1, <1>6, <1>7 DEF AmongTyped
<1> QED  BY <1>8 DEF more

\* The code of a character that is typed now comes last, and so does the character.
LEMMA TypedAdded ==
    ASSUME NEW codes \in Seq(Codes), NEW code \in Codes, NEW chars, NEW all \in Seq(Chars),
           NEW char \in Chars, KeyIn(char) = KeyOfCode(code), AmongTyped(codes, chars, all)
    PROVE  AmongTyped(Append(codes, code), chars, Append(all, char))
<1>1. PICK place \in [1 .. Len(chars) -> 1 .. Len(all)], source \in [1 .. Len(codes) -> 0 .. Len(all)] :
        Places(place, chars, all) /\ Sources(source, codes, place, chars, all)
  BY DEF AmongTyped
<1>2. DEFINE more == Append(codes, code)
             all2 == Append(all, char)
             last == Len(codes) + 1
             new == [i \in 1 .. last |-> IF i = last THEN Len(all) + 1 ELSE source[i]]
<1>3. /\ Len(codes) \in Nat /\ Len(more) = last /\ more[last] = code
      /\ \A i \in 1 .. Len(codes) : more[i] = codes[i]
  BY LenProperties, AppendProperties
<1>4. /\ Len(all) \in Nat /\ Len(all2) = Len(all) + 1 /\ all2[Len(all) + 1] = char
      /\ \A i \in 1 .. Len(all) : all2[i] = all[i]
  BY LenProperties, AppendProperties
<1>5. /\ new \in [1 .. last -> 0 .. Len(all) + 1] /\ new[last] = Len(all) + 1
      /\ \A i \in 1 .. Len(codes) : new[i] = source[i]
      /\ \A i \in 1 .. last : i = last \/ i \in 1 .. Len(codes)
  BY <1>3, <1>4
<1> HIDE DEF more, new, all2
<1>6. \A j \in 1 .. Len(chars) : place[j] \in 1 .. Len(all)
  BY <1>1
<1>7. Places(place, chars, all2)
  <2>1. place \in [1 .. Len(chars) -> 1 .. Len(all2)]
    BY <1>1, <1>4
  <2> QED  BY <2>1, <1>1, <1>4, <1>6 DEF Places
<1>8. Sources(new, more, place, chars, all2)
  <2>1. ASSUME NEW i \in 1 .. last, Gives(more[i])
        PROVE  /\ new[i] > 0 /\ KeyOfCode(more[i]) = KeyIn(all2[new[i]])
               /\ \A j \in 1 .. Len(chars) : place[j] < new[i]
    <3>1. CASE i = last
      BY <3>1, <1>3, <1>4, <1>5, <1>6
    <3>2. CASE i \in 1 .. Len(codes)
      <4>1. Gives(codes[i]) /\ more[i] = codes[i] /\ new[i] = source[i]
        BY <3>2, <2>1, <1>3, <1>5
      <4>2. /\ source[i] > 0 /\ KeyOfCode(codes[i]) = KeyIn(all[source[i]])
            /\ \A j \in 1 .. Len(chars) : place[j] < source[i]
        BY <4>1, <3>2, <1>1 DEF Sources
      <4>3. source[i] \in 1 .. Len(all)
        <5>1. source[i] \in 0 .. Len(all)
          BY <3>2
        <5> QED  BY <5>1, <4>2, <1>4
      <4>4. all2[source[i]] = all[source[i]]
        BY <4>3, <1>4
      <4> QED  BY <4>1, <4>2, <4>4
    <3> QED  BY <3>1, <3>2, <1>5
  <2>2. ASSUME NEW i \in 1 .. last, NEW j \in 1 .. last, i < j, Gives(more[i]), Gives(more[j])
        PROVE  new[i] < new[j]
    <3>1. i \in 1 .. Len(codes)
      BY <2>2, <1>3
    <3>2. CASE j = last
      BY <3>1, <3>2, <1>1, <1>4, <1>5
    <3>3. CASE j \in 1 .. Len(codes)
      BY <3>1, <3>3, <2>2, <1>1, <1>3, <1>5 DEF Sources
    <3> QED  BY <3>2, <3>3, <1>5
  <2>3. new \in [1 .. Len(more) -> 0 .. Len(all2)]
    BY <1>3, <1>4, <1>5
  <2> QED  BY <2>1, <2>2, <2>3, <1>3 DEF Sources
<1>9. new \in [1 .. Len(more) -> 0 .. Len(all2)] /\ place \in [1 .. Len(chars) -> 1 .. Len(all2)]
  BY <1>1, <1>3, <1>4, <1>5
<1>10. AmongTyped(more, chars, all2)
  BY <1>7, <1>8, <1>9 DEF AmongTyped
<1> QED  BY <1>10 DEF more, all2

\* What is among the keys typed is what was typed with some keys left out.
LEMMA PlacesCount ==
    ASSUME NEW codes, NEW chars \in Seq(Chars), NEW all \in Seq(Chars), AmongTyped(codes, chars, all)
    PROVE  \E kept \in SUBSET DOMAIN all :
               /\ Cardinality(kept) = Len(chars)
               /\ \A i \in kept : KeyIn(all[i]) = KeyIn(chars[Cardinality({j \in kept : j <= i})])
<1>1. PICK place \in [1 .. Len(chars) -> 1 .. Len(all)] : Places(place, chars, all)
  BY DEF AmongTyped
<1>2. Len(chars) \in Nat /\ Len(all) \in Nat /\ DOMAIN all = 1 .. Len(all)
  BY LenProperties
<1>3. DEFINE First(k) == {place[i] : i \in 1 .. k}
<1>4. ASSUME NEW k \in 0 .. Len(chars) PROVE Cardinality(First(k)) = k
  <2>1. DEFINE f == [i \in 1 .. k |-> place[i]]
  <2>2. \A i \in 1 .. k : i \in 1 .. Len(chars) /\ f[i] = place[i] /\ f[i] \in First(k)
    BY <1>2
  <2>3. f \in [1 .. k -> First(k)]
    BY <2>2
  <2>4. \A i, j \in 1 .. k : i # j => place[i] # place[j]
    <3>1. \A i, j \in 1 .. k : i < j => place[i] < place[j]
      BY <2>2, <1>1 DEF Places
    <3>2. \A i \in 1 .. k : place[i] \in 1 .. Len(all)
      BY <2>2
    <3>3. \A i, j \in 1 .. k : i # j => i < j \/ j < i
      OBVIOUS
    <3> QED  BY <3>1, <3>2, <3>3
  <2>5. f \in Injection(1 .. k, First(k))
    BY <2>2, <2>3, <2>4 DEF Injection, IsInjective
  <2>6. \A x \in First(k) : \E i \in 1 .. k : f[i] = x
    BY <2>2
  <2>7. f \in Surjection(1 .. k, First(k))
    BY <2>3, <2>6 DEF Surjection
  <2>8. ExistsBijection(1 .. k, First(k))
    BY <2>5, <2>7 DEF ExistsBijection, Bijection
  <2>9. k \in Nat
    BY <1>2
  <2> HIDE DEF First
  <2> QED  BY <2>8, <2>9, FS_CountingElements
<1>5. First(Len(chars)) \in SUBSET DOMAIN all
  BY <1>1, <1>2
<1>6. ASSUME NEW i \in 1 .. Len(chars)
      PROVE  {j \in First(Len(chars)) : j <= place[i]} = First(i)
  <2>1. \A j \in 1 .. Len(chars) : place[j] <= place[i] <=> j <= i
    <3>1. \A j \in 1 .. Len(chars) : place[j] \in Int
      OBVIOUS
    <3>2. \A j \in 1 .. Len(chars) : /\ j < i => place[j] < place[i]
                                     /\ i < j => place[i] < place[j]
                                     /\ j < i \/ j = i \/ i < j
      BY <1>1 DEF Places
    <3> QED  BY <3>1, <3>2
  <2>2. \A j : j \in 1 .. i <=> j \in 1 .. Len(chars) /\ j <= i
    BY <1>2
  <2> QED  BY <2>1, <2>2
<1>7. ASSUME NEW x \in First(Len(chars))
      PROVE  KeyIn(all[x]) = KeyIn(chars[Cardinality({j \in First(Len(chars)) : j <= x})])
  <2>1. PICK i \in 1 .. Len(chars) : x = place[i]
    OBVIOUS
  <2>2. i \in 0 .. Len(chars) /\ KeyIn(chars[i]) = KeyIn(all[place[i]])
    BY <1>1 DEF Places
  <2>3. Cardinality(First(i)) = i
    BY <2>2, <1>4
  <2> HIDE DEF First
  <2> QED  BY <2>1, <2>2, <2>3, <1>6
<1>8. Cardinality(First(Len(chars))) = Len(chars)
  <2>1. Len(chars) \in 0 .. Len(chars)
    BY <1>2
  <2> HIDE DEF First
  <2> QED  BY <2>1, <1>4
<1> HIDE DEF First
<1> QED  BY <1>5, <1>7, <1>8

----------------------------------------------------------------------------
(* Sequences whose elements move on.                                       *)

LEMMA Moved ==
    ASSUME NEW S, NEW s \in Seq(S), NEW t \in Seq(S), t # << >>
    PROVE  /\ Append(s, Head(t)) \o Tail(t) = s \o t
           /\ Append(s, Head(t)) \in Seq(S) /\ Tail(t) \in Seq(S)
<1>1. /\ Head(t) \in S /\ Head(t) = t[1] /\ Tail(t) \in Seq(S) /\ Len(Tail(t)) = Len(t) - 1
      /\ \A i \in 1 .. Len(Tail(t)) : Tail(t)[i] = t[i + 1]
  BY HeadTailProperties
<1>2. DEFINE more == Append(s, Head(t))
<1>3. /\ more \in Seq(S) /\ Len(more) = Len(s) + 1 /\ more[Len(s) + 1] = t[1]
      /\ \A i \in 1 .. Len(s) : more[i] = s[i]
  BY <1>1, AppendProperties
<1> HIDE DEF more
<1>4. Len(s) \in Nat /\ Len(t) \in Nat /\ Len(t) > 0
  BY LenProperties, EmptySeq
<1>5. /\ more \o Tail(t) \in Seq(S) /\ Len(more \o Tail(t)) = Len(s) + Len(t)
      /\ \A i \in 1 .. Len(s) + Len(t) :
           (more \o Tail(t))[i] = IF i <= Len(more) THEN more[i] ELSE Tail(t)[i - Len(more)]
  <2>1. Len(more) + Len(Tail(t)) = Len(s) + Len(t)
    BY <1>1, <1>3, <1>4
  <2>2. more \in Seq(S) /\ Tail(t) \in Seq(S)
    BY <1>1, <1>3
  <2>3. /\ more \o Tail(t) \in Seq(S) /\ Len(more \o Tail(t)) = Len(more) + Len(Tail(t))
        /\ \A i \in 1 .. Len(more) + Len(Tail(t)) :
             (more \o Tail(t))[i] = IF i <= Len(more) THEN more[i] ELSE Tail(t)[i - Len(more)]
    BY <2>2, ConcatProperties
  <2> QED  BY <2>1, <2>3
<1>6. /\ s \o t \in Seq(S) /\ Len(s \o t) = Len(s) + Len(t)
      /\ \A i \in 1 .. Len(s) + Len(t) : (s \o t)[i] = IF i <= Len(s) THEN s[i] ELSE t[i - Len(s)]
  BY ConcatProperties
<1>7. ASSUME NEW i \in 1 .. Len(s) + Len(t) PROVE (more \o Tail(t))[i] = (s \o t)[i]
  <2>1. CASE i <= Len(s)
    <3>1. i \in 1 .. Len(s) /\ i <= Len(more)
      BY <2>1, <1>3, <1>4
    <3> QED  BY <2>1, <3>1, <1>3, <1>5, <1>6
  <2>2. CASE i = Len(s) + 1
    <3>1. i <= Len(more) /\ ~(i <= Len(s)) /\ i - Len(s) = 1
      BY <2>2, <1>3, <1>4
    <3> QED  BY <2>2, <3>1, <1>3, <1>5, <1>6
  <2>3. CASE i > Len(s) + 1
    <3>1. /\ ~(i <= Len(more)) /\ ~(i <= Len(s)) /\ i - Len(more) \in 1 .. Len(Tail(t))
          /\ (i - Len(more)) + 1 = i - Len(s)
      BY <2>3, <1>1, <1>3, <1>4
    <3> QED  BY <3>1, <1>1, <1>5, <1>6
  <2>4. i <= Len(s) \/ i = Len(s) + 1 \/ i > Len(s) + 1
    BY <1>4
  <2> QED  BY <2>1, <2>2, <2>3, <2>4
<1>8. more \o Tail(t) = s \o t
  <2>1. \A i \in 1 .. Len(more \o Tail(t)) : (more \o Tail(t))[i] = (s \o t)[i]
    BY <1>5, <1>7
  <2> QED  BY <2>1, <1>5, <1>6, SeqEqual
<1> QED  BY <1>1, <1>3, <1>8 DEF more

LEMMA Dropped ==
    ASSUME NEW S, NEW s \in Seq(S), NEW t \in Seq(S), t # << >>
    PROVE  /\ Without(s \o t, Len(s) + 1, s \o Tail(t))
           /\ Len(s) + 1 \in 1 .. Len(s \o t) /\ (s \o t)[Len(s) + 1] = Head(t)
           /\ s \o t \in Seq(S) /\ s \o Tail(t) \in Seq(S)
<1>1. /\ Head(t) = t[1] /\ Tail(t) \in Seq(S) /\ Len(Tail(t)) = Len(t) - 1
      /\ \A i \in 1 .. Len(Tail(t)) : Tail(t)[i] = t[i + 1]
  BY HeadTailProperties
<1>2. Len(s) \in Nat /\ Len(t) \in Nat /\ Len(t) > 0
  BY LenProperties, EmptySeq
<1>3. /\ s \o t \in Seq(S) /\ Len(s \o t) = Len(s) + Len(t)
      /\ \A i \in 1 .. Len(s) + Len(t) : (s \o t)[i] = IF i <= Len(s) THEN s[i] ELSE t[i - Len(s)]
  BY ConcatProperties
<1>4. /\ s \o Tail(t) \in Seq(S) /\ Len(s \o Tail(t)) = Len(s) + Len(Tail(t))
      /\ \A i \in 1 .. Len(s) + Len(Tail(t)) :
           (s \o Tail(t))[i] = IF i <= Len(s) THEN s[i] ELSE Tail(t)[i - Len(s)]
  BY <1>1, ConcatProperties
<1>5. ASSUME NEW i \in 1 .. Len(s \o Tail(t))
      PROVE  (s \o Tail(t))[i] = IF i < Len(s) + 1 THEN (s \o t)[i] ELSE (s \o t)[i + 1]
  <2>1. i \in 1 .. Len(s) + Len(Tail(t)) /\ i \in 1 .. Len(s) + Len(t) /\ i + 1 \in 1 .. Len(s) + Len(t)
    BY <1>1, <1>2, <1>4
  <2>2. CASE i <= Len(s)
    BY <2>1, <2>2, <1>2, <1>3, <1>4
  <2>3. CASE i > Len(s)
    <3>1. /\ i - Len(s) \in 1 .. Len(Tail(t)) /\ (i - Len(s)) + 1 = (i + 1) - Len(s)
          /\ ~(i <= Len(s)) /\ ~(i + 1 <= Len(s)) /\ ~(i < Len(s) + 1)
      BY <2>1, <2>3, <1>1, <1>2
    <3> QED  BY <2>1, <3>1, <1>1, <1>3, <1>4
  <2> QED  BY <2>1, <2>2, <2>3, <1>2
<1>6. Len(s \o Tail(t)) = Len(s \o t) - 1
  BY <1>1, <1>2, <1>3, <1>4
<1>7. Len(s) + 1 \in 1 .. Len(s) + Len(t) /\ ~(Len(s) + 1 <= Len(s)) /\ (Len(s) + 1) - Len(s) = 1
  BY <1>2
<1>8. (s \o t)[Len(s) + 1] = Head(t)
  BY <1>1, <1>3, <1>7
<1> QED  BY <1>3, <1>4, <1>5, <1>6, <1>7, <1>8 DEF Without

LEMMA Taken ==
    ASSUME NEW S, NEW x \in S, NEW s \in Seq(S)
    PROVE  /\ <<x>> \o s \in Seq(S) /\ <<x>> \o s # << >> /\ (<<x>> \o s)[1] = x
           /\ Without(<<x>> \o s, 1, s)
<1>1. <<x>> \in Seq(S) /\ Len(<<x>>) = 1 /\ <<x>>[1] = x
  OBVIOUS
<1>2. /\ <<x>> \o s \in Seq(S) /\ Len(<<x>> \o s) = 1 + Len(s)
      /\ \A i \in 1 .. 1 + Len(s) : (<<x>> \o s)[i] = IF i <= 1 THEN <<x>>[i] ELSE s[i - 1]
  BY <1>1, ConcatProperties
<1>3. Len(s) \in Nat
  BY LenProperties
<1>4. \A i \in 1 .. Len(s) : i + 1 \in 1 .. 1 + Len(s) /\ ~(i + 1 <= 1) /\ (i + 1) - 1 = i /\ ~(i < 1)
  BY <1>3
<1>5. <<x>> \o s # << >>
  BY <1>2, <1>3, EmptySeq
<1>6. Without(<<x>> \o s, 1, s)
  BY <1>2, <1>3, <1>4 DEF Without
<1> QED  BY <1>1, <1>2, <1>3, <1>5, <1>6

LEMMA Pair ==
    ASSUME NEW S, NEW a \in S, NEW b \in S
    PROVE  <<a>> \o <<b>> = <<a, b>>
<1>1. <<a>> \o <<b>> \in Seq(S) /\ Len(<<a>> \o <<b>>) = 2 /\ <<a, b>> \in Seq(S) /\ Len(<<a, b>>) = 2
  OBVIOUS
<1>2. \A i \in 1 .. 2 : i = 1 \/ i = 2
  OBVIOUS
<1>3. (<<a>> \o <<b>>)[1] = a /\ (<<a>> \o <<b>>)[2] = b
  OBVIOUS
<1>4. \A i \in 1 .. 2 : (<<a>> \o <<b>>)[i] = <<a, b>>[i]
  BY <1>2, <1>3
<1>5. Len(<<a>> \o <<b>>) = Len(<<a, b>>)
  BY <1>1
<1> QED  BY <1>1, <1>4, <1>5, SeqEqual

\* The acknowledgement and the prefix change nothing.
LEMMA Silent ==
    ASSUME NEW s \in States, NEW code \in {Ack, Prefix}
    PROVE  After(s, code) = s
<1>1. /\ code.up /\ code.key \notin {"lshift", "rshift"}
      /\ code.key \notin {"ctrl", "rctrl"} /\ code.key \notin {"alt"}
  BY CodeFields
<1>2. After(s, code) = [shift |-> s.shift, ctrl |-> s.ctrl, alt |-> s.alt, caps |-> s.caps, n |-> s.n]
  BY <1>1 DEF After, Flag, Gives
<1> QED  BY <1>2 DEF States

LEMMA CodesTyped ==
    /\ Ack \in Codes /\ Prefix \in Codes /\ None \notin Codes
    /\ \A k \in KeyNames, up \in BOOLEAN : Code(k, up) \in Codes
<1>1. Ack \in Codes /\ Prefix \in Codes
  BY DEF Codes
<1>2. \A k \in KeyNames, up \in BOOLEAN : Code(k, up) \in Codes
  BY DEF Codes, Code
<1>3. "none" \notin KeyNames
  BY DEF KeyNames
<1>4. None \notin Codes
  BY <1>3, CodeFields DEF Codes
<1> QED  BY <1>1, <1>2, <1>4

\* The codes of a key, with or without the prefix.
LEMMA KeyAdded ==
    ASSUME NEW codes \in Seq(Codes), NEW k \in KeyNames, NEW up \in BOOLEAN
    PROVE  /\ k \in Prefixed => codes \o CodesOf(k, up) = Append(Append(codes, Prefix), Code(k, up))
           /\ k \notin Prefixed => codes \o CodesOf(k, up) = Append(codes, Code(k, up))
           /\ CodesOf(k, up) \in Seq(Codes)
<1>1. Prefix \in Codes /\ Code(k, up) \in Codes
  BY CodesTyped
<1>2. DEFINE code == Code(k, up)
<1> HIDE DEF code
<1>3. code \in Codes
  BY <1>1 DEF code
<1>4. Append(codes, code) = codes \o <<code>> /\ <<code>> \in Seq(Codes) /\ <<Prefix>> \in Seq(Codes)
  BY <1>1, <1>3, AppendIsConcat
<1>5. Append(codes, Prefix) = codes \o <<Prefix>> /\ Append(codes, Prefix) \in Seq(Codes)
  BY <1>1, AppendIsConcat, AppendProperties
<1>6. Append(Append(codes, Prefix), code) = (codes \o <<Prefix>>) \o <<code>>
  BY <1>3, <1>5, AppendIsConcat
<1>7. (codes \o <<Prefix>>) \o <<code>> = codes \o (<<Prefix>> \o <<code>>)
  BY <1>4, ConcatAssociative
<1>8. <<Prefix>> \o <<code>> = <<Prefix, code>>
  BY <1>1, <1>3, Pair
<1>9. <<Prefix, code>> \in Seq(Codes)
  BY <1>1, <1>3
<1> QED  BY <1>4, <1>6, <1>7, <1>8, <1>9 DEF CodesOf, code

\* A key is touched: its codes come last.
LEMMA KeyCatchesUp ==
    ASSUME NEW codes \in Seq(Codes), NEW k \in KeyNames, NEW up \in BOOLEAN, NEW start,
           NEW chars \in Seq(Chars), NEW keys, NEW capslock,
           NEW chars2 \in Seq(Chars), NEW keys2, NEW capslock2,
           Len(chars2) >= Len(chars), \A i \in 1 .. Len(chars) : chars2[i] = chars[i],
           \A s \in States : UpToDate(s, chars, keys, capslock) =>
               /\ UpToDate(After(s, Code(k, up)), chars2, keys2, capslock2)
               /\ Gives(Code(k, up)) => GivesTyped(After(s, Code(k, up)), Code(k, up), chars2),
           CatchesUp(codes, start, chars, keys, capslock)
    PROVE  CatchesUp(codes \o CodesOf(k, up), start, chars2, keys2, capslock2)
<1>1. Prefix \in Codes /\ Code(k, up) \in Codes
  BY CodesTyped
<1>2. CASE k \notin Prefixed
  <2>1. CatchesUp(Append(codes, Code(k, up)), start, chars2, keys2, capslock2)
    BY <1>1, LastAdded
  <2> QED  BY <2>1, <1>2, KeyAdded
<1>3. CASE k \in Prefixed
  <2>1. \A s \in States : After(s, Prefix) = s
    BY Silent
  <2>2. ~Gives(Prefix)
    BY CodeFields DEF Gives
  <2>3. Len(chars) \in Nat /\ Len(chars) >= Len(chars)
    BY LenProperties
  <2>4. CatchesUp(Append(codes, Prefix), start, chars, keys, capslock)
    BY <1>1, <2>1, <2>2, <2>3, LastAdded
  <2>5. Append(codes, Prefix) \in Seq(Codes)
    BY <1>1, AppendProperties
  <2>6. CatchesUp(Append(Append(codes, Prefix), Code(k, up)), start, chars2, keys2, capslock2)
    BY <1>1, <2>4, <2>5, LastAdded
  <2> QED  BY <1>3, <2>6, KeyAdded
<1> QED  BY <1>2, <1>3

LEMMA KeyAmongTyped ==
    ASSUME NEW codes \in Seq(Codes), NEW k \in KeyNames, NEW chars, NEW all \in Seq(Chars),
           AmongTyped(codes, chars, all)
    PROVE  /\ \A up \in BOOLEAN : ~Gives(Code(k, up)) => AmongTyped(codes \o CodesOf(k, up), chars, all)
           /\ \A char \in Chars : KeyIn(char) = KeyOfCode(Code(k, FALSE)) =>
                AmongTyped(codes \o CodesOf(k, FALSE), chars, Append(all, char))
<1>1. Prefix \in Codes /\ \A up \in BOOLEAN : Code(k, up) \in Codes
  BY CodesTyped
<1>2. Len(all) \in Nat
  BY LenProperties
<1>3. DEFINE before == IF k \in Prefixed THEN Append(codes, Prefix) ELSE codes
<1>4. before \in Seq(Codes) /\ AmongTyped(before, chars, all)
  <2>1. ~Gives(Prefix)
    BY CodeFields DEF Gives
  <2>2. Append(codes, Prefix) \in Seq(Codes)
    BY <1>1, AppendProperties
  <2>3. AmongTyped(Append(codes, Prefix), chars, all)
    BY <1>1, <1>2, <2>1, SilentAdded
  <2> QED  BY <2>2, <2>3
<1>5. \A up \in BOOLEAN : codes \o CodesOf(k, up) = Append(before, Code(k, up))
  BY KeyAdded
<1> HIDE DEF before
<1>6. ASSUME NEW up \in BOOLEAN, ~Gives(Code(k, up)) PROVE AmongTyped(codes \o CodesOf(k, up), chars, all)
  BY <1>1, <1>2, <1>4, <1>5, <1>6, SilentAdded
<1>7. ASSUME NEW char \in Chars, KeyIn(char) = KeyOfCode(Code(k, FALSE))
      PROVE  AmongTyped(codes \o CodesOf(k, FALSE), chars, Append(all, char))
  BY <1>1, <1>4, <1>5, <1>7, TypedAdded
<1> QED  BY <1>6, <1>7

----------------------------------------------------------------------------
(* The user's keys.                                                        *)

LEMMA Typed ==
    ASSUME Types
    PROVE  /\ Popped \in Seq(Codes) /\ Popped \o raw_keydata_q \in Seq(Codes) /\ Pending \in Seq(Codes)
           /\ given \in Seq(Chars) /\ Len(given) \in Nat /\ Len(typed) \in Nat
           /\ Now \in States
<1>1. Popped \in Seq(Codes)
  <2>1. CASE raw_key = None
    BY <2>1, EmptySeq DEF Popped
  <2>2. CASE raw_key # None
    <3>1. raw_key \in Codes
      BY <2>2 DEF Types
    <3>2. <<raw_key>> \in Seq(Codes)
      BY <3>1
    <3> QED  BY <2>2, <3>2 DEF Popped
  <2> QED  BY <2>1, <2>2
<1>2. Popped \o raw_keydata_q \in Seq(Codes)
  BY <1>1, ConcatProperties DEF Types
<1>3. Pending \in Seq(Codes)
  BY <1>2, ConcatProperties DEF Types, Pending
<1>4. given \in Seq(Chars) /\ Len(given) \in Nat /\ Len(typed) \in Nat
  <2>1. given \in Seq(Chars)
    BY ConcatProperties DEF Types, given
  <2> QED  BY <2>1, LenProperties DEF Types
<1>5. Now \in States
  BY <1>4 DEF Now, States, Types
<1> QED  BY <1>1, <1>2, <1>3, <1>4, <1>5

LEMMA KeysAre ==
    /\ Keys \subseteq KeyNames
    /\ \A k \in KeyNames : /\ k \in {"lshift", "rshift", "ctrl", "rctrl", "alt"} <=> k \in Modifiers
                           /\ k \in {"capslock", "numlock"} <=> k \in Locks
                           /\ k \in Modifiers => k \notin Locks
BY KeyboardAssumption DEF KeyNames, Modifiers, Locks

\* The character of a key has the key in it.
LEMMA CharOfKey ==
    ASSUME NEW k \in KeyNames, NEW shift, NEW capslock
    PROVE  /\ m_AsciiCode(shift, capslock, k) \in Chars
           /\ KeyIn(m_AsciiCode(shift, capslock, k)) = IF k \in Modifiers THEN "NUL" ELSE k
<1>1. NUL \in Chars /\ <<"upper", k>> \in Chars /\ <<"lower", k>> \in Chars
  BY DEF NUL, Chars
<1>2. KeyIn(NUL) = "NUL" /\ KeyIn(<<"upper", k>>) = k /\ KeyIn(<<"lower", k>>) = k
  BY DEF NUL, KeyIn
<1> QED  BY <1>1, <1>2 DEF m_AsciiCode

\* What touching a key does to the keys of a pair that count: just what its code
\* does to the flag of the pair.
LEMMA PairsMove ==
    ASSUME NEW pair \in {{"lshift", "rshift"}, {"ctrl", "rctrl"}, {"alt"}}, NEW k \in Keys, NEW up \in BOOLEAN,
           down' = IF up THEN down \ {k} ELSE down \cup {k},
           overruled' = IF up THEN (overruled \cup PairOf(k)) \cap down' ELSE overruled \ PairOf(k)
    PROVE  (Counting' \cap pair # {}) = Flag(Counting \cap pair # {}, pair, Code(k, up))
<1>1. Code(k, up).key = k /\ Code(k, up).up = up
  BY CodeFields
<1>2. IF k \in pair THEN PairOf(k) = pair ELSE PairOf(k) \cap pair = {}
  <2>1. PairOf(k) = IF k \in {"lshift", "rshift"} THEN {"lshift", "rshift"}
                    ELSE IF k \in {"ctrl", "rctrl"} THEN {"ctrl", "rctrl"} ELSE {k}
    BY DEF PairOf
  <2>2. CASE pair = {"lshift", "rshift"}
    BY <2>1, <2>2
  <2>3. CASE pair = {"ctrl", "rctrl"}
    BY <2>1, <2>3
  <2>4. CASE pair = {"alt"}
    BY <2>1, <2>4
  <2> QED  BY <2>2, <2>3, <2>4
<1>3. CASE k \in pair /\ up
  <2>1. Counting' \cap pair = {}
    BY <1>2, <1>3 DEF Counting
  <2> QED  BY <2>1, <1>1, <1>3 DEF Flag
<1>4. CASE k \in pair /\ ~up
  <2>1. k \in Counting' \cap pair
    BY <1>2, <1>4 DEF Counting
  <2> QED  BY <2>1, <1>1, <1>4 DEF Flag
<1>5. CASE k \notin pair
  <2>1. Counting' \cap pair = Counting \cap pair
    <3>1. CASE up
      BY <3>1, <1>2, <1>5 DEF Counting
    <3>2. CASE ~up
      BY <3>2, <1>2, <1>5 DEF Counting
    <3> QED  BY <3>1, <3>2
  <2> QED  BY <2>1, <1>1, <1>5 DEF Flag
<1> QED  BY <1>3, <1>4, <1>5

\* Where a code takes the state that has translated everything: the flags go on
\* being those of the keys that count.
LEMMA FlagsMove ==
    ASSUME NEW s \in States, UpToDate(s, typed, Counting, caps), NEW k \in Keys, NEW up \in BOOLEAN,
           down' = IF up THEN down \ {k} ELSE down \cup {k},
           overruled' = IF up THEN (overruled \cup PairOf(k)) \cap down' ELSE overruled \ PairOf(k)
    PROVE  /\ After(s, Code(k, up)).shift = ShiftIsDown(Counting')
           /\ After(s, Code(k, up)).ctrl = (Counting' \cap {"ctrl", "rctrl"} # {})
           /\ After(s, Code(k, up)).alt = ("alt" \in Counting')
<1>1. /\ s.shift = (Counting \cap {"lshift", "rshift"} # {}) /\ s.ctrl = (Counting \cap {"ctrl", "rctrl"} # {})
      /\ s.alt = ("alt" \in Counting)
  BY DEF UpToDate, ShiftIsDown
<1>2. \A keys : ("alt" \in keys) = (keys \cap {"alt"} # {})
  OBVIOUS
<1>3. s.alt = (Counting \cap {"alt"} # {})
  BY <1>1, <1>2
<1>4. /\ (Counting' \cap {"lshift", "rshift"} # {}) = Flag(Counting \cap {"lshift", "rshift"} # {}, {"lshift", "rshift"}, Code(k, up))
      /\ (Counting' \cap {"ctrl", "rctrl"} # {}) = Flag(Counting \cap {"ctrl", "rctrl"} # {}, {"ctrl", "rctrl"}, Code(k, up))
      /\ (Counting' \cap {"alt"} # {}) = Flag(Counting \cap {"alt"} # {}, {"alt"}, Code(k, up))
  BY PairsMove
<1>5. /\ After(s, Code(k, up)).shift = Flag(s.shift, {"lshift", "rshift"}, Code(k, up))
      /\ After(s, Code(k, up)).ctrl = Flag(s.ctrl, {"ctrl", "rctrl"}, Code(k, up))
      /\ After(s, Code(k, up)).alt = Flag(s.alt, {"alt"}, Code(k, up))
  BY AfterFields
<1>6. ("alt" \in Counting') = (Counting' \cap {"alt"} # {})
  BY <1>2
<1> QED  BY <1>1, <1>3, <1>4, <1>5, <1>6 DEF ShiftIsDown

\* Pressing a key, which is typed in the case the keys that count give it.
LEMMA PressMoves ==
    ASSUME Types, NEW k \in Keys, Press(k), NEW s \in States, UpToDate(s, typed, Counting, caps)
    PROVE  /\ UpToDate(After(s, Code(k, FALSE)), typed', Counting', caps')
           /\ Gives(Code(k, FALSE)) => GivesTyped(After(s, Code(k, FALSE)), Code(k, FALSE), typed')
<1>1. DEFINE code == Code(k, FALSE)
             t == After(s, code)
             char == m_AsciiCode(ShiftIsDown(Counting), caps, k)
<1>2. code.key = k /\ code.up = FALSE
  BY CodeFields
<1>3. /\ t.shift = Flag(s.shift, {"lshift", "rshift"}, code)
      /\ t.caps = IF code.key = "capslock" /\ ~code.up THEN ~s.caps ELSE s.caps
      /\ t.n = IF Gives(code) THEN s.n + 1 ELSE s.n
  BY AfterFields
<1>4. t.shift = ShiftIsDown(Counting') /\ t.ctrl = (Counting' \cap {"ctrl", "rctrl"} # {}) /\ t.alt = ("alt" \in Counting')
  <2>1. down' = down \cup {k} /\ overruled' = overruled \ PairOf(k)
    BY DEF Press
  <2>2. FALSE \in BOOLEAN
    OBVIOUS
  <2> QED  BY <2>1, <2>2, FlagsMove
<1>5. char \in Chars
  BY KeysAre, CharOfKey
<1> HIDE DEF code, t, char
<1>6. k \in KeyNames /\ (Gives(code) <=> k \notin Locks)
  BY <1>2, KeysAre DEF Gives
<1>7. /\ caps' = (IF k = "capslock" THEN ~caps ELSE caps)
      /\ typed' = IF k \in Locks THEN typed ELSE Append(typed, char)
  BY DEF Press, char
<1>8. /\ s.shift = ShiftIsDown(Counting)
      /\ s.caps = caps /\ s.n = Len(typed) /\ Len(typed) \in Nat /\ typed \in Seq(Chars)
  BY Typed DEF UpToDate, Types
<1>9. t.caps = caps'
  BY <1>2, <1>3, <1>7, <1>8
<1>10. CASE k \in Locks
  <2>1. t.n = Len(typed')
    BY <1>3, <1>6, <1>7, <1>8, <1>10
  <2>2. UpToDate(t, typed', Counting', caps')
    BY <2>1, <1>4, <1>9 DEF UpToDate
  <2> QED  BY <2>2, <1>6, <1>10 DEF t, code
<1>11. CASE k \notin Locks
  <2>1. typed' = Append(typed, char) /\ t.n = Len(typed) + 1
    BY <1>3, <1>6, <1>7, <1>8, <1>11
  <2>2. Len(typed') = Len(typed) + 1 /\ typed'[Len(typed) + 1] = char
    BY <2>1, <1>5, <1>8, AppendProperties
  <2>3. t.n = Len(typed') /\ t.n \in 1 .. Len(typed') /\ typed'[t.n] = char
    BY <2>1, <2>2, <1>8
  <2>4. char = m_AsciiCode(t.shift, t.caps, k)
    <3>1. CASE k \in Modifiers
      BY <3>1 DEF char, m_AsciiCode
    <3>2. CASE k \notin Modifiers
      <4>1. k \notin {"lshift", "rshift"} /\ k # "capslock"
        BY <3>2, <1>11 DEF Modifiers, Locks
      <4>2. t.shift = s.shift /\ t.caps = s.caps
        BY <4>1, <1>2, <1>3 DEF Flag
      <4> QED  BY <4>2, <1>8 DEF char
    <3> QED  BY <3>1, <3>2
  <2>5. GivesTyped(t, code, typed')
    BY <2>3, <2>4, <1>2 DEF GivesTyped
  <2>6. UpToDate(t, typed', Counting', caps')
    BY <2>3, <1>4, <1>9 DEF UpToDate
  <2> QED  BY <2>5, <2>6 DEF t, code
<1> QED  BY <1>10, <1>11

LEMMA ReleaseMoves ==
    ASSUME Types, NEW k \in Keys, Release(k), NEW s \in States, UpToDate(s, typed, Counting, caps)
    PROVE  /\ UpToDate(After(s, Code(k, TRUE)), typed', Counting', caps')
           /\ ~Gives(Code(k, TRUE))
<1>1. DEFINE code == Code(k, TRUE)
             t == After(s, code)
<1>2. code.key = k /\ code.up = TRUE
  BY CodeFields
<1>3. /\ t.caps = IF code.key = "capslock" /\ ~code.up THEN ~s.caps ELSE s.caps
      /\ t.n = IF Gives(code) THEN s.n + 1 ELSE s.n
  BY AfterFields
<1>4. t.shift = ShiftIsDown(Counting') /\ t.ctrl = (Counting' \cap {"ctrl", "rctrl"} # {}) /\ t.alt = ("alt" \in Counting')
  <2>1. down' = down \ {k} /\ overruled' = (overruled \cup PairOf(k)) \cap down'
    BY DEF Release
  <2>2. TRUE \in BOOLEAN
    OBVIOUS
  <2> QED  BY <2>1, <2>2, FlagsMove
<1> HIDE DEF code, t
<1>5. ~Gives(code)
  BY <1>2 DEF Gives
<1>6. caps' = caps /\ typed' = typed
  BY DEF Release
<1>7. s.caps = caps /\ s.n = Len(typed)
  BY DEF UpToDate
<1>8. t.caps = caps' /\ t.n = Len(typed')
  BY <1>2, <1>3, <1>5, <1>6, <1>7
<1>9. UpToDate(t, typed', Counting', caps')
  BY <1>4, <1>8 DEF UpToDate
<1> QED  BY <1>5, <1>9 DEF t, code

----------------------------------------------------------------------------
(* The invariant is inductive.                                             *)

LEMMA PressKeeps ==
    ASSUME KInv, NEW k \in Keys, Press(k)
    PROVE  KInv'
<1> USE DEF KInv
<1>1. /\ Pending \in Seq(Codes) /\ Popped \o raw_keydata_q \in Seq(Codes) /\ typed \in Seq(Chars)
      /\ wire \in Seq(Codes) /\ k \in KeyNames /\ given \in Seq(Chars)
      /\ Len(given) \in Nat /\ Len(typed) \in Nat
  BY Typed, KeysAre DEF Types
<1>2. DEFINE char == m_AsciiCode(ShiftIsDown(Counting), caps, k)
<1>3. char \in Chars /\ KeyIn(char) = KeyOfCode(Code(k, FALSE))
  <2>1. Code(k, FALSE).key = k
    BY CodeFields
  <2>2. char \in Chars /\ KeyIn(char) = IF k \in Modifiers THEN "NUL" ELSE k
    BY <1>1, CharOfKey
  <2> QED  BY <2>1, <2>2 DEF KeyOfCode
<1>4. typed' = (IF k \in Locks THEN typed ELSE Append(typed, char)) /\ wire' = wire \o CodesOf(k, FALSE)
  BY DEF Press
<1> HIDE DEF char
<1>5. /\ typed' \in Seq(Chars) /\ Len(typed') >= Len(typed)
      /\ \A i \in 1 .. Len(typed) : typed'[i] = typed[i]
  <2>1. CASE k \in Locks
    BY <2>1, <1>1, <1>4
  <2>2. CASE k \notin Locks
    <3>1. /\ Append(typed, char) \in Seq(Chars) /\ Len(Append(typed, char)) = Len(typed) + 1
          /\ \A i \in 1 .. Len(typed) : Append(typed, char)[i] = typed[i]
      BY <1>1, <1>3, AppendProperties
    <3> QED  BY <2>2, <3>1, <1>1, <1>4
  <2> QED  BY <2>1, <2>2
<1>6. CodesOf(k, FALSE) \in Seq(Codes)
  BY <1>1, KeyAdded
<1>7. Types'
  <2>1. wire' \in Seq(Codes)
    BY <1>1, <1>4, <1>6, ConcatProperties
  <2>2. down' \subseteq Keys /\ caps' \in BOOLEAN
    BY DEF Press, Types
  <2> QED  BY <2>1, <2>2, <1>5 DEF Press, Types, queues, flags
<1>8. /\ Popped' = Popped /\ Now' = Now /\ given' = given /\ lost' = lost /\ raw_keydata_q' = raw_keydata_q
  BY DEF Press, Popped, Now, given, queues, flags
<1>9. Pending' = Pending \o CodesOf(k, FALSE)
  <2>1. (Popped \o raw_keydata_q) \o (wire \o CodesOf(k, FALSE)) = Pending \o CodesOf(k, FALSE)
    <3> DEFINE before == Popped \o raw_keydata_q
               added == CodesOf(k, FALSE)
    <3>1. before \in Seq(Codes) /\ wire \in Seq(Codes) /\ added \in Seq(Codes) /\ Pending = before \o wire
      BY <1>1, <1>6 DEF Pending
    <3> HIDE DEF before, added
    <3>2. (before \o wire) \o added = before \o (wire \o added)
      BY <3>1, ConcatAssociative
    <3> QED  BY <3>1, <3>2 DEF before, added
  <2> QED  BY <2>1, <1>4, <1>8 DEF Pending
<1>10. ASSUME ~lost PROVE CatchesUp(Pending', Now', typed', Counting', caps')
  <2>1. CatchesUp(Pending, Now, typed, Counting, caps)
    BY <1>10
  <2>2. \A s \in States : UpToDate(s, typed, Counting, caps) =>
          /\ UpToDate(After(s, Code(k, FALSE)), typed', Counting', caps')
          /\ Gives(Code(k, FALSE)) => GivesTyped(After(s, Code(k, FALSE)), Code(k, FALSE), typed')
    BY PressMoves
  <2>3. FALSE \in BOOLEAN
    OBVIOUS
  <2>4. CatchesUp(Pending \o CodesOf(k, FALSE), Now, typed', Counting', caps')
    BY <2>1, <2>2, <2>3, <1>1, <1>5, KeyCatchesUp
  <2> QED  BY <2>4, <1>8, <1>9
<1>11. ASSUME ~lost PROVE GivenIsTyped'
  <2>1. Len(given) <= Len(typed) /\ \A i \in 1 .. Len(given) : given[i] = typed[i]
    BY <1>11 DEF GivenIsTyped
  <2>2. Len(typed') \in Nat
    BY <1>5, LenProperties
  <2>3. Len(given) <= Len(typed')
    BY <2>1, <2>2, <1>1, <1>5
  <2>4. ASSUME NEW i \in 1 .. Len(given) PROVE given[i] = typed'[i]
    <3>1. i \in 1 .. Len(typed) /\ given[i] = typed[i]
      BY <2>1, <2>4, <1>1
    <3> QED  BY <3>1, <1>5
  <2> QED  BY <2>3, <2>4, <1>8 DEF GivenIsTyped
<1>12. AmongTyped(Pending', given', typed')
  <2>1. CASE k \in Locks
    <3>1. ~Gives(Code(k, FALSE)) /\ FALSE \in BOOLEAN
      BY <2>1, CodeFields DEF Gives
    <3>2. AmongTyped(Pending \o CodesOf(k, FALSE), given, typed)
      BY <3>1, <1>1, KeyAmongTyped
    <3> QED  BY <2>1, <3>2, <1>4, <1>8, <1>9
  <2>2. CASE k \notin Locks
    <3>1. AmongTyped(Pending \o CodesOf(k, FALSE), given, Append(typed, char))
      BY <1>1, <1>3, KeyAmongTyped
    <3> QED  BY <2>2, <3>1, <1>4, <1>8, <1>9
  <2> QED  BY <2>1, <2>2
<1> QED  BY <1>7, <1>8, <1>10, <1>11, <1>12

LEMMA ReleaseKeeps ==
    ASSUME KInv, NEW k \in Keys, Release(k)
    PROVE  KInv'
<1> USE DEF KInv
<1>1. /\ Pending \in Seq(Codes) /\ Popped \o raw_keydata_q \in Seq(Codes) /\ typed \in Seq(Chars)
      /\ wire \in Seq(Codes) /\ k \in KeyNames /\ Len(typed) \in Nat /\ TRUE \in BOOLEAN
  BY Typed, KeysAre DEF Types
<1>2. CodesOf(k, TRUE) \in Seq(Codes)
  BY <1>1, KeyAdded
<1>3. wire' = wire \o CodesOf(k, TRUE) /\ typed' = typed /\ caps' = caps
  BY DEF Release
<1>4. Types'
  <2>1. wire' \in Seq(Codes)
    BY <1>1, <1>2, <1>3, ConcatProperties
  <2>2. down' \subseteq Keys
    BY DEF Release, Types
  <2>3. overruled' \subseteq down' /\ "alt" \notin overruled'
    <3>1. k # "alt" => "alt" \notin PairOf(k)
      BY DEF PairOf
    <3>2. down' = down \ {k} /\ overruled' = (overruled \cup PairOf(k)) \cap down' /\ "alt" \notin overruled
      BY DEF Release, Types
    <3> QED  BY <3>1, <3>2
  <2> QED  BY <2>1, <2>2, <2>3 DEF Release, Types, queues, flags
<1>5. /\ Popped' = Popped /\ Now' = Now /\ given' = given /\ lost' = lost /\ raw_keydata_q' = raw_keydata_q
  BY DEF Release, Popped, Now, given, queues, flags
<1>6. Pending' = Pending \o CodesOf(k, TRUE)
  <2>1. (Popped \o raw_keydata_q) \o (wire \o CodesOf(k, TRUE)) = Pending \o CodesOf(k, TRUE)
    <3> DEFINE before == Popped \o raw_keydata_q
               added == CodesOf(k, TRUE)
    <3>1. before \in Seq(Codes) /\ wire \in Seq(Codes) /\ added \in Seq(Codes) /\ Pending = before \o wire
      BY <1>1, <1>2 DEF Pending
    <3> HIDE DEF before, added
    <3>2. (before \o wire) \o added = before \o (wire \o added)
      BY <3>1, ConcatAssociative
    <3> QED  BY <3>1, <3>2 DEF before, added
  <2> QED  BY <2>1, <1>3, <1>5 DEF Pending
<1>7. ~Gives(Code(k, TRUE))
  BY CodeFields DEF Gives
<1>8. ASSUME ~lost PROVE CatchesUp(Pending', Now', typed', Counting', caps')
  <2>1. CatchesUp(Pending, Now, typed, Counting, caps)
    BY <1>8
  <2>2. \A s \in States : UpToDate(s, typed, Counting, caps) =>
          /\ UpToDate(After(s, Code(k, TRUE)), typed', Counting', caps')
          /\ Gives(Code(k, TRUE)) => GivesTyped(After(s, Code(k, TRUE)), Code(k, TRUE), typed')
    BY <1>7, ReleaseMoves
  <2>3. typed' \in Seq(Chars) /\ Len(typed') >= Len(typed) /\ \A i \in 1 .. Len(typed) : typed'[i] = typed[i]
    BY <1>1, <1>3
  <2>4. CatchesUp(Pending \o CodesOf(k, TRUE), Now, typed', Counting', caps')
    BY <2>1, <2>2, <2>3, <1>1, KeyCatchesUp
  <2> QED  BY <2>4, <1>5, <1>6
<1>9. ASSUME ~lost PROVE GivenIsTyped'
  BY <1>3, <1>5, <1>9 DEF GivenIsTyped
<1>10. AmongTyped(Pending', given', typed')
  <2>1. AmongTyped(Pending \o CodesOf(k, TRUE), given, typed)
    BY <1>1, <1>7, KeyAmongTyped
  <2> QED  BY <2>1, <1>3, <1>5, <1>6
<1> QED  BY <1>4, <1>5, <1>8, <1>9, <1>10

\* A step that leaves the codes on their way, and all else the invariant
\* speaks of, as they are.
LEMMA SameKeeps ==
    ASSUME KInv, Types', Pending' = Pending, Now' = Now, given' = given, lost' = lost,
           typed' = typed,
           down' = down, overruled' = overruled, Counting' = Counting, caps' = caps
    PROVE  KInv'
BY DEF KInv, GivenIsTyped

\* A step that leaves out a code: one that changes nothing, or any at all when
\* it is then known that something is lost.
LEMMA LeftOutKeeps ==
    ASSUME KInv, Types', NEW p \in 1 .. Len(Pending), Without(Pending, p, Pending'),
           Pending' \in Seq(Codes),
           Now' = Now, given' = given, typed' = typed,
           down' = down, overruled' = overruled, Counting' = Counting, caps' = caps,
           ~lost' => ~lost /\ Pending[p] \in {Ack, Prefix}
    PROVE  KInv'
<1>1. Pending \in Seq(Codes)
  BY Typed DEF KInv
<1>2. AmongTyped(Pending', given', typed')
  <2>1. AmongTyped(Pending', given, typed)
    BY <1>1, SourceLeftOut DEF KInv
  <2> QED  BY <2>1
<1>3. ASSUME ~lost' PROVE CatchesUp(Pending', Now', typed', Counting', caps') /\ GivenIsTyped'
  <2>1. CatchesUp(Pending, Now, typed, Counting, caps) /\ GivenIsTyped
    BY <1>3 DEF KInv
  <2>2. \A s \in States : After(s, Pending[p]) = s
    BY <1>3, Silent
  <2>3. CatchesUp(Pending', Now, typed, Counting, caps)
    BY <1>1, <2>1, <2>2, SilentLeftOut
  <2> QED  BY <2>1, <2>3 DEF GivenIsTyped
<1> QED  BY <1>2, <1>3 DEF KInv

LEMMA InterruptKeeps ==
    ASSUME KInv, Kbd_IRQ_Handler
    PROVE  KInv'
<1>1. Types
  BY DEF KInv
<1>2. DEFINE before == Popped \o raw_keydata_q
<1>3. /\ Popped \in Seq(Codes) /\ before \in Seq(Codes) /\ wire \in Seq(Codes) /\ raw_keydata_q \in Seq(Codes)
      /\ Len(before) \in Nat /\ wire # << >>
  BY <1>1, Typed, LenProperties DEF Types, Kbd_IRQ_Handler
<1>4. /\ Head(wire) \in Codes /\ Tail(wire) \in Seq(Codes) /\ wire' = Tail(wire)
  BY <1>3, HeadTailProperties DEF Kbd_IRQ_Handler
<1>5. /\ Popped' = Popped /\ Now' = Now /\ given' = given /\ typed' = typed
      /\ down' = down /\ overruled' = overruled /\ Counting' = Counting /\ caps' = caps
  BY DEF Kbd_IRQ_Handler, Popped, Now, given, flags, user, Counting
<1>6. CASE Head(wire) # Ack /\ HasRoom(raw_keydata_q, RAW_KEY_DATA_Q_SIZE)
  <2>1. raw_keydata_q' = Append(raw_keydata_q, Head(wire)) /\ lost' = lost
    BY <1>1, <1>6 DEF Kbd_IRQ_Handler, Types
  <2>2. /\ Append(raw_keydata_q, Head(wire)) \in Seq(Codes)
        /\ Len(Append(raw_keydata_q, Head(wire))) = Len(raw_keydata_q) + 1
        /\ Append(raw_keydata_q, Head(wire)) = raw_keydata_q \o <<Head(wire)>>
        /\ <<Head(wire)>> \in Seq(Codes)
        /\ Append(before, Head(wire)) = before \o <<Head(wire)>>
    BY <1>3, <1>4, AppendProperties, AppendIsConcat
  <2>3. Len(raw_keydata_q') <= RAW_KEY_DATA_Q_SIZE
    BY <2>1, <2>2, <1>3, <1>6, KeyboardAssumption, LenProperties DEF HasRoom
  <2>4. Types'
    BY <2>1, <2>2, <2>3, <1>1, <1>4 DEF Kbd_IRQ_Handler, Types, flags, user
  <2>5. Popped \o (raw_keydata_q \o <<Head(wire)>>) = before \o <<Head(wire)>>
    BY <2>2, <1>3, ConcatAssociative
  <2>6. Append(before, Head(wire)) \o Tail(wire) = before \o wire
    <3> HIDE DEF before
    <3> QED  BY <1>3, Moved
  <2>7. Pending' = Pending
    BY <2>1, <2>2, <2>5, <2>6, <1>4, <1>5 DEF Pending
  <2> QED  BY <2>1, <2>4, <2>7, <1>5, SameKeeps
<1>7. CASE ~(Head(wire) # Ack /\ HasRoom(raw_keydata_q, RAW_KEY_DATA_Q_SIZE))
  <2>1. raw_keydata_q' = raw_keydata_q /\ (~lost' => ~lost /\ Head(wire) = Ack)
    BY <1>7 DEF Kbd_IRQ_Handler
  <2>2. lost' \in BOOLEAN
    BY DEF Kbd_IRQ_Handler
  <2>3. Types'
    BY <2>1, <2>2, <1>1, <1>4 DEF Kbd_IRQ_Handler, Types, flags, user
  <2>4. /\ Without(before \o wire, Len(before) + 1, before \o Tail(wire))
        /\ Len(before) + 1 \in 1 .. Len(before \o wire) /\ (before \o wire)[Len(before) + 1] = Head(wire)
        /\ before \o Tail(wire) \in Seq(Codes)
    <3> HIDE DEF before
    <3> QED  BY <1>3, Dropped
  <2>5. Pending' = before \o Tail(wire) /\ Pending = before \o wire
    BY <2>1, <1>4, <1>5 DEF Pending
  <2> HIDE DEF before
  <2>6. PICK p \in 1 .. Len(Pending) : Without(Pending, p, Pending') /\ Pending[p] = Head(wire)
    BY <2>4, <2>5
  <2>7. Pending' \in Seq(Codes)
    BY <2>4, <2>5
  <2> QED  BY <2>1, <2>3, <2>6, <2>7, <1>5, LeftOutKeeps
<1> QED  BY <1>6, <1>7

LEMMA PopKeeps ==
    ASSUME KInv, KbdpPopRawKeyData
    PROVE  KInv'
<1>1. /\ Types /\ raw_key = None /\ raw_keydata_q # << >> /\ raw_keydata_q \in Seq(Codes)
      /\ raw_key' = Head(raw_keydata_q) /\ raw_keydata_q' = Tail(raw_keydata_q)
  BY DEF KInv, Types, KbdpPopRawKeyData
<1>2. /\ Head(raw_keydata_q) \in Codes /\ Tail(raw_keydata_q) \in Seq(Codes)
      /\ Len(Tail(raw_keydata_q)) = Len(raw_keydata_q) - 1
  BY <1>1, HeadTailProperties
<1>3. raw_key' # None
  BY <1>1, <1>2, CodesTyped
<1>4. Len(raw_keydata_q') <= RAW_KEY_DATA_Q_SIZE
  BY <1>1, <1>2, KeyboardAssumption, LenProperties DEF Types
<1>5. Types'
  BY <1>1, <1>2, <1>4 DEF KbdpPopRawKeyData, Types, flags, user
<1>6. Popped = << >> /\ Popped' = <<Head(raw_keydata_q)>>
  BY <1>1, <1>3 DEF Popped
<1>7. Append(<< >>, Head(raw_keydata_q)) \o Tail(raw_keydata_q) = << >> \o raw_keydata_q
  <2>1. << >> \in Seq(Codes)
    BY EmptySeq
  <2> QED  BY <2>1, <1>1, Moved
<1>8. Append(<< >>, Head(raw_keydata_q)) = <<Head(raw_keydata_q)>>
  OBVIOUS
<1>9. wire' = wire
  BY DEF KbdpPopRawKeyData
<1>10. Pending' = Pending
  BY <1>1, <1>6, <1>7, <1>8, <1>9 DEF Pending
<1>11. /\ Now' = Now /\ given' = given /\ lost' = lost /\ typed' = typed
      /\ down' = down /\ overruled' = overruled /\ Counting' = Counting /\ caps' = caps
  BY DEF KbdpPopRawKeyData, Now, given, flags, user, Counting
<1> QED  BY <1>5, <1>10, <1>11, SameKeeps

LEMMA GetKeyKeeps ==
    ASSUME KInv, KbdGetKey
    PROVE  KInv'
<1>1. /\ Types /\ user_keydata_q # << >> /\ user_keydata_q \in Seq(Chars) /\ read \in Seq(Chars)
      /\ read' = Append(read, Head(user_keydata_q)) /\ user_keydata_q' = Tail(user_keydata_q)
  BY DEF KInv, Types, KbdGetKey, WithoutFirst
<1>2. /\ read' \in Seq(Chars) /\ user_keydata_q' \in Seq(Chars) /\ given' = given
  BY <1>1, Moved DEF given
<1>3. Len(user_keydata_q') <= USER_KEY_DATA_Q_SIZE
  BY <1>1, HeadTailProperties, KeyboardAssumption, LenProperties DEF Types
<1>4. Types'
  BY <1>1, <1>2, <1>3 DEF KbdGetKey, Types, flags, user
<1>5. /\ Now' = Now /\ Pending' = Pending /\ lost' = lost /\ typed' = typed
      /\ down' = down /\ overruled' = overruled /\ Counting' = Counting /\ caps' = caps
  BY <1>2 DEF KbdGetKey, Now, Pending, Popped, flags, user, Counting
<1> QED  BY <1>2, <1>4, <1>5, SameKeeps

\* The translator's next code, and those behind it.
Rest == raw_keydata_q \o wire

LEMMA NextCode ==
    ASSUME KInv, raw_key # None
    PROVE  /\ raw_key \in Codes /\ Rest \in Seq(Codes)
           /\ AmongTyped(Rest, given, typed)
           /\ \A char \in Chars : Gives(raw_key) /\ KeyIn(char) = KeyOfCode(raw_key) =>
                AmongTyped(Rest, Append(given, char), typed)
           /\ ~lost => /\ CatchesUp(Rest, After(Now, raw_key), typed, Counting, caps)
                       /\ Gives(raw_key) => GivesTyped(After(Now, raw_key), raw_key, typed)
<1>1. /\ Types /\ raw_key \in Codes /\ raw_keydata_q \in Seq(Codes) /\ wire \in Seq(Codes)
      /\ Pending \in Seq(Codes) /\ given \in Seq(Chars) /\ Len(typed) \in Nat
  BY Typed DEF KInv, Types
<1>2. Rest \in Seq(Codes)
  BY <1>1, ConcatProperties DEF Rest
<1>3. Pending = <<raw_key>> \o Rest
  <2>1. <<raw_key>> \in Seq(Codes)
    BY <1>1
  <2>2. \A s, t, u \in Seq(Codes) : (s \o t) \o u = s \o (t \o u)
    BY ConcatAssociative
  <2>3. (<<raw_key>> \o raw_keydata_q) \o wire = <<raw_key>> \o (raw_keydata_q \o wire)
    BY <2>1, <2>2, <1>1
  <2> QED  BY <2>3 DEF Pending, Popped, Rest
<1>4. Pending # << >> /\ Pending[1] = raw_key /\ Without(Pending, 1, Rest)
  BY <1>1, <1>2, <1>3, Taken
<1>5. 1 \in 1 .. Len(Pending)
  BY <1>1, <1>4, EmptySeq
<1>6. AmongTyped(Rest, given, typed)
  BY <1>1, <1>2, <1>4, <1>5, SourceLeftOut DEF KInv
<1>7. ASSUME NEW char \in Chars, Gives(raw_key), KeyIn(char) = KeyOfCode(raw_key)
      PROVE  AmongTyped(Rest, Append(given, char), typed)
  <2>1. AmongTyped(Pending, given, typed) /\ Gives(Pending[1]) /\ KeyIn(char) = KeyOfCode(Pending[1])
    BY <1>4, <1>7 DEF KInv
  <2> QED  BY <2>1, <1>1, <1>2, <1>4, SourceTaken
<1>8. ASSUME ~lost
      PROVE  /\ CatchesUp(Rest, After(Now, raw_key), typed, Counting, caps)
             /\ Gives(raw_key) => GivesTyped(After(Now, raw_key), raw_key, typed)
  <2>1. CatchesUp(Pending, Now, typed, Counting, caps)
    BY <1>8 DEF KInv
  <2>2. /\ CatchesUp(Rest, After(Now, Pending[1]), typed, Counting, caps)
        /\ Gives(Pending[1]) => GivesTyped(After(Now, Pending[1]), Pending[1], typed)
    BY <2>1, <1>1, <1>2, <1>4, FirstTaken
  <2> QED  BY <2>2, <1>4
<1> QED  BY <1>1, <1>2, <1>6, <1>7, <1>8

LEMMA PoppedGone ==
    ASSUME raw_key' = None, raw_keydata_q' \in Seq(Codes)
    PROVE  Pending' = raw_keydata_q' \o wire'
<1>1. Popped' = << >>
  BY DEF Popped
<1>2. << >> \o raw_keydata_q' = raw_keydata_q'
  BY ConcatEmptySeq
<1> QED  BY <1>1, <1>2 DEF Pending

LEMMA ReleasedKeeps ==
    ASSUME KInv, KeyReleased
    PROVE  KInv'
<1>1. Types /\ raw_key # None /\ raw_key.up = TRUE
  <2>1. Types /\ raw_key # None /\ raw_key.up
    BY DEF KInv, KeyReleased
  <2>2. raw_key.up \in BOOLEAN
    BY <2>1, CodeFields DEF Types, Codes
  <2> QED  BY <2>1, <2>2
<1>2. Types'
  BY <1>1 DEF KeyReleased, Types, queues, user
<1>3. Pending' = Rest
  BY <1>1, PoppedGone DEF KeyReleased, queues, Rest, Types
<1>4. /\ given' = given /\ lost' = lost /\ typed' = typed
      /\ down' = down /\ overruled' = overruled /\ Counting' = Counting /\ caps' = caps
      /\ indicator_status' = indicator_status
  BY DEF KeyReleased, given, queues, user, Counting
<1>5. ~Gives(raw_key)
  BY <1>1 DEF Gives
<1>6. Now' = After(Now, raw_key)
  <2>1. /\ Now.shift = shift_key_pressed /\ Now.ctrl = ctrl_key_pressed /\ Now.alt = alt_key_pressed
        /\ Now.caps = ("capslock" \in indicator_status) /\ Now.n = Len(given)
    BY DEF Now
  <2>2. shift_key_pressed' = Flag(Now.shift, {"lshift", "rshift"}, raw_key)
    BY <2>1, <1>1 DEF KeyReleased, Flag, Types
  <2>3. ctrl_key_pressed' = Flag(Now.ctrl, {"ctrl", "rctrl"}, raw_key)
    BY <2>1, <1>1 DEF KeyReleased, Flag, Types
  <2>4. alt_key_pressed' = Flag(Now.alt, {"alt"}, raw_key)
    BY <2>1, <1>1 DEF KeyReleased, Flag, Types
  <2>5. After(Now, raw_key) =
          [shift |-> Flag(Now.shift, {"lshift", "rshift"}, raw_key),
           ctrl |-> Flag(Now.ctrl, {"ctrl", "rctrl"}, raw_key),
           alt |-> Flag(Now.alt, {"alt"}, raw_key),
           caps |-> "capslock" \in indicator_status, n |-> Len(given)]
    BY <2>1, <1>1, <1>5 DEF After
  <2> QED  BY <2>2, <2>3, <2>4, <2>5, <1>4 DEF Now
<1>7. ASSUME ~lost PROVE CatchesUp(Pending', Now', typed', Counting', caps') /\ GivenIsTyped'
  <2>1. GivenIsTyped
    BY <1>7 DEF KInv
  <2>2. CatchesUp(Rest, After(Now, raw_key), typed, Counting, caps)
    BY <1>1, <1>7, NextCode
  <2> QED  BY <2>1, <2>2, <1>3, <1>4, <1>6 DEF GivenIsTyped
<1>8. AmongTyped(Pending', given', typed')
  BY <1>1, <1>3, <1>4, NextCode
<1> QED  BY <1>2, <1>4, <1>7, <1>8 DEF KInv

\* The acknowledgements come last, and change nothing.
LEMMA AcksAdded ==
    ASSUME NEW codes \in Seq(Codes), NEW start, NEW chars, NEW all \in Seq(Chars), NEW keys, NEW capslock
    PROVE  /\ codes \o <<Ack, Ack>> \in Seq(Codes) /\ <<Ack, Ack>> \in Seq(Codes)
           /\ AmongTyped(codes, chars, all) => AmongTyped(codes \o <<Ack, Ack>>, chars, all)
           /\ CatchesUp(codes, start, all, keys, capslock) =>
                CatchesUp(codes \o <<Ack, Ack>>, start, all, keys, capslock)
<1>1. Ack \in Codes /\ ~Gives(Ack)
  BY CodesTyped, CodeFields DEF Gives
<1>2. Append(codes, Ack) \in Seq(Codes) /\ Append(Append(codes, Ack), Ack) \in Seq(Codes)
  BY <1>1, AppendProperties
<1>3. <<Ack>> \in Seq(Codes) /\ <<Ack, Ack>> \in Seq(Codes)
  BY <1>1
<1>4. Append(Append(codes, Ack), Ack) = codes \o <<Ack, Ack>>
  <2>1. Append(Append(codes, Ack), Ack) = (codes \o <<Ack>>) \o <<Ack>>
    BY <1>1, <1>2, AppendIsConcat
  <2>2. (codes \o <<Ack>>) \o <<Ack>> = codes \o (<<Ack>> \o <<Ack>>)
    BY <1>3, ConcatAssociative
  <2>3. <<Ack>> \o <<Ack>> = <<Ack, Ack>>
    BY <1>1, Pair
  <2> QED  BY <2>1, <2>2, <2>3
<1>5. Len(all) \in Nat /\ Len(all) >= Len(all)
  BY LenProperties
<1>6. ASSUME AmongTyped(codes, chars, all) PROVE AmongTyped(Append(Append(codes, Ack), Ack), chars, all)
  <2>1. AmongTyped(Append(codes, Ack), chars, all)
    BY <1>1, <1>5, <1>6, SilentAdded
  <2> QED  BY <2>1, <1>1, <1>2, <1>5, SilentAdded
<1>7. ASSUME CatchesUp(codes, start, all, keys, capslock)
      PROVE  CatchesUp(Append(Append(codes, Ack), Ack), start, all, keys, capslock)
  <2>1. \A s \in States : After(s, Ack) = s
    BY Silent
  <2>2. CatchesUp(Append(codes, Ack), start, all, keys, capslock)
    BY <2>1, <1>1, <1>5, <1>7, LastAdded
  <2> QED  BY <2>1, <2>2, <1>1, <1>2, <1>5, LastAdded
<1> QED  BY <1>2, <1>3, <1>4, <1>6, <1>7

LEMMA LockKeeps ==
    ASSUME KInv, LockPressed
    PROVE  KInv'
<1>1. /\ Types /\ ~raw_key.up /\ raw_key.key \in Locks /\ typed \in Seq(Chars)
      /\ raw_keydata_q \in Seq(Codes) /\ wire \in Seq(Codes)
  BY DEF KInv, LockPressed, Types
<1>2. raw_key # None
  BY <1>1, CodeFields DEF Locks
<1>3. Rest \in Seq(Codes) /\ <<Ack, Ack>> \in Seq(Codes) /\ Pending' = Rest \o <<Ack, Ack>>
  <2>1. Pending' = raw_keydata_q \o (wire \o <<Ack, Ack>>)
    BY <1>1, PoppedGone DEF LockPressed, queues
  <2>2. <<Ack, Ack>> \in Seq(Codes)
    BY CodesTyped
  <2>3. (raw_keydata_q \o wire) \o <<Ack, Ack>> = raw_keydata_q \o (wire \o <<Ack, Ack>>)
    <3> DEFINE acks == <<Ack, Ack>>
    <3> HIDE DEF acks
    <3>1. acks \in Seq(Codes) /\ raw_keydata_q \in Seq(Codes) /\ wire \in Seq(Codes)
      BY <2>2, <1>1 DEF acks
    <3>2. \A s, t, u \in Seq(Codes) : (s \o t) \o u = s \o (t \o u)
      BY ConcatAssociative
    <3>3. (raw_keydata_q \o wire) \o acks = raw_keydata_q \o (wire \o acks)
      BY <3>1, <3>2
    <3> QED  BY <3>3 DEF acks
  <2> QED  BY <2>1, <2>2, <2>3, <1>2, NextCode DEF Rest
<1>4. Types'
  <2>1. wire' \in Seq(Codes)
    BY <1>1, <1>3, ConcatProperties DEF LockPressed
  <2>2. indicator_status' \subseteq Locks
    BY <1>1 DEF LockPressed, Toggled, SymDiff, Types
  <2> QED  BY <2>1, <2>2, <1>1 DEF LockPressed, Types, queues, user
<1>5. /\ given' = given /\ lost' = lost /\ typed' = typed
      /\ down' = down /\ overruled' = overruled /\ Counting' = Counting /\ caps' = caps
      /\ shift_key_pressed' = shift_key_pressed /\ ctrl_key_pressed' = ctrl_key_pressed
      /\ alt_key_pressed' = alt_key_pressed
  BY DEF LockPressed, given, queues, user, Counting
<1>6. ~Gives(raw_key)
  BY <1>1 DEF Gives
<1>7. Now' = After(Now, raw_key)
  <2>1. /\ Now.shift = shift_key_pressed /\ Now.ctrl = ctrl_key_pressed /\ Now.alt = alt_key_pressed
        /\ Now.caps = ("capslock" \in indicator_status) /\ Now.n = Len(given)
    BY DEF Now
  <2>2. /\ raw_key.key \notin {"lshift", "rshift"} /\ raw_key.key \notin {"ctrl", "rctrl"}
        /\ raw_key.key \notin {"alt"}
    BY <1>1 DEF Locks
  <2>3. ("capslock" \in indicator_status') =
          (IF raw_key.key = "capslock" /\ ~raw_key.up THEN ~Now.caps ELSE Now.caps)
    <3>1. indicator_status' =
            (indicator_status \ {raw_key.key}) \cup ({raw_key.key} \ indicator_status)
      BY DEF LockPressed, Toggled, SymDiff
    <3>2. CASE raw_key.key = "capslock"
      <4>1. "capslock" \in indicator_status' <=> ~("capslock" \in indicator_status)
        BY <3>1, <3>2
      <4>2. CASE "capslock" \in indicator_status
        <5>1. Now.caps = TRUE
          BY <2>1, <4>2
        <5>2. (IF raw_key.key = "capslock" /\ ~raw_key.up THEN ~Now.caps ELSE Now.caps) = FALSE
          BY <5>1, <3>2, <1>1
        <5>3. ("capslock" \in indicator_status') = FALSE
          BY <4>1, <4>2
        <5> QED  BY <5>2, <5>3
      <4>3. CASE "capslock" \notin indicator_status
        <5>1. Now.caps = FALSE
          <6>1. ("capslock" \in indicator_status) = FALSE
            BY <4>3
          <6> QED  BY <6>1, <2>1
        <5>2. (IF raw_key.key = "capslock" /\ ~raw_key.up THEN ~Now.caps ELSE Now.caps) = TRUE
          BY <5>1, <3>2, <1>1
        <5>3. ("capslock" \in indicator_status') = TRUE
          BY <4>1, <4>3
        <5> QED  BY <5>2, <5>3
      <4> QED  BY <4>2, <4>3
    <3>3. CASE raw_key.key # "capslock"
      <4>1. "capslock" \in indicator_status' <=> "capslock" \in indicator_status
        BY <3>1, <3>3
      <4> QED  BY <4>1, <3>3, <2>1
    <3> QED  BY <3>2, <3>3
  <2>4. After(Now, raw_key) =
          [shift |-> shift_key_pressed, ctrl |-> ctrl_key_pressed, alt |-> alt_key_pressed,
           caps |-> IF raw_key.key = "capslock" /\ ~raw_key.up THEN ~Now.caps ELSE Now.caps,
           n |-> Len(given)]
    BY <2>1, <2>2, <1>6 DEF After, Flag
  <2> QED  BY <2>3, <2>4, <1>5 DEF Now
<1>8. ASSUME ~lost PROVE CatchesUp(Pending', Now', typed', Counting', caps') /\ GivenIsTyped'
  <2>1. GivenIsTyped
    BY <1>8 DEF KInv
  <2>2. CatchesUp(Rest, After(Now, raw_key), typed, Counting, caps)
    BY <1>2, <1>8, NextCode
  <2>3. CatchesUp(Rest \o <<Ack, Ack>>, After(Now, raw_key), typed, Counting, caps)
    BY <2>2, <1>1, <1>3, AcksAdded
  <2> QED  BY <2>1, <2>3, <1>3, <1>5, <1>7 DEF GivenIsTyped
<1>9. AmongTyped(Pending', given', typed')
  <2>1. AmongTyped(Rest, given, typed)
    BY <1>2, NextCode
  <2>2. AmongTyped(Rest \o <<Ack, Ack>>, given, typed)
    BY <2>1, <1>1, <1>3, AcksAdded
  <2> QED  BY <2>2, <1>3, <1>5
<1> QED  BY <1>4, <1>5, <1>8, <1>9 DEF KInv

LEMMA PressedKeeps ==
    ASSUME KInv, KeyPressed
    PROVE  KInv'
<1>1. /\ Types /\ raw_key # None /\ ~raw_key.up /\ raw_key.key \notin Locks /\ Gives(raw_key)
      /\ raw_key \in Codes /\ raw_keydata_q \in Seq(Codes) /\ given \in Seq(Chars)
      /\ read \in Seq(Chars) /\ user_keydata_q \in Seq(Chars) /\ Len(given) \in Nat
  BY Typed DEF KInv, KeyPressed, Types, Gives
<1>2. raw_key.key \in KeyNames
  BY <1>1, CodeFields DEF Codes
<1>3. DEFINE char == KeyOf(shift_key_pressed', "capslock" \in indicator_status, raw_key.key)
             fits == HasRoom(user_keydata_q, USER_KEY_DATA_Q_SIZE)
<1>4. char \in Chars /\ KeyIn(char) = KeyOfCode(raw_key)
  <2>1. \A shift, capslock : /\ m_AsciiCode(shift, capslock, raw_key.key) \in Chars
                             /\ KeyIn(m_AsciiCode(shift, capslock, raw_key.key)) =
                                   IF raw_key.key \in Modifiers THEN "NUL" ELSE raw_key.key
    BY <1>2, CharOfKey
  <2> QED  BY <2>1 DEF KeyOf, KeyOfCode
<1>5. /\ user_keydata_q' = (IF fits THEN Append(user_keydata_q, char) ELSE user_keydata_q)
      /\ ~lost' => ~lost /\ fits
      /\ read' = read /\ wire' = wire /\ raw_keydata_q' = raw_keydata_q /\ raw_key' = None
      /\ lost' \in BOOLEAN
  BY <1>1 DEF KeyPressed, Types
<1>6. /\ typed' = typed
      /\ down' = down /\ overruled' = overruled /\ Counting' = Counting /\ caps' = caps /\ indicator_status' = indicator_status
  BY DEF KeyPressed, user, Counting
<1>7. Pending' = Rest
  BY <1>1, <1>5, PoppedGone DEF Rest
<1>8. /\ shift_key_pressed' \in BOOLEAN /\ ctrl_key_pressed' \in BOOLEAN /\ alt_key_pressed' \in BOOLEAN
  BY <1>1 DEF KeyPressed, Types
<1> HIDE DEF char
<1>9. CASE fits
  <2>1. /\ Append(user_keydata_q, char) \in Seq(Chars)
        /\ Len(Append(user_keydata_q, char)) = Len(user_keydata_q) + 1
    BY <1>1, <1>4, AppendProperties
  <2>2. Len(user_keydata_q') <= USER_KEY_DATA_Q_SIZE
    BY <2>1, <1>1, <1>5, <1>9, KeyboardAssumption, LenProperties DEF HasRoom
  <2>3. Types'
    BY <2>1, <2>2, <1>1, <1>5, <1>6, <1>8, <1>9 DEF Types
  <2>4. given' = Append(given, char)
    <3>1. /\ Append(user_keydata_q, char) = user_keydata_q \o <<char>> /\ <<char>> \in Seq(Chars)
          /\ Append(given, char) = given \o <<char>>
      BY <1>1, <1>4, AppendIsConcat
    <3>2. (read \o user_keydata_q) \o <<char>> = read \o (user_keydata_q \o <<char>>)
      <4> DEFINE last == <<char>>
      <4>1. last \in Seq(Chars) /\ read \in Seq(Chars) /\ user_keydata_q \in Seq(Chars)
        BY <3>1, <1>1
      <4> HIDE DEF last
      <4>2. (read \o user_keydata_q) \o last = read \o (user_keydata_q \o last)
        BY <4>1, ConcatAssociative
      <4> QED  BY <4>2 DEF last
    <3> QED  BY <3>1, <3>2, <1>5, <1>9 DEF given
  <2>5. /\ Len(given') = Len(given) + 1 /\ given'[Len(given) + 1] = char
        /\ \A i \in 1 .. Len(given) : given'[i] = given[i]
    BY <2>4, <1>1, <1>4, AppendProperties
  <2>6. Now' = After(Now, raw_key)
    <3>1. /\ Now.shift = shift_key_pressed /\ Now.ctrl = ctrl_key_pressed /\ Now.alt = alt_key_pressed
          /\ Now.caps = ("capslock" \in indicator_status) /\ Now.n = Len(given)
      BY DEF Now
    <3>2. shift_key_pressed' = Flag(Now.shift, {"lshift", "rshift"}, raw_key)
      BY <3>1, <1>1 DEF KeyPressed, Flag, Types
    <3>3. ctrl_key_pressed' = Flag(Now.ctrl, {"ctrl", "rctrl"}, raw_key)
      BY <3>1, <1>1 DEF KeyPressed, Flag, Types
    <3>4. alt_key_pressed' = Flag(Now.alt, {"alt"}, raw_key)
      BY <3>1, <1>1 DEF KeyPressed, Flag, Types
    <3>5. raw_key.key # "capslock"
      BY <1>1 DEF Locks
    <3>6. After(Now, raw_key) =
            [shift |-> Flag(Now.shift, {"lshift", "rshift"}, raw_key),
             ctrl |-> Flag(Now.ctrl, {"ctrl", "rctrl"}, raw_key),
             alt |-> Flag(Now.alt, {"alt"}, raw_key),
             caps |-> "capslock" \in indicator_status, n |-> Len(given) + 1]
      BY <3>1, <3>5, <1>1 DEF After
    <3> QED  BY <3>2, <3>3, <3>4, <3>6, <2>5, <1>6 DEF Now
  <2>7. ASSUME ~lost' PROVE CatchesUp(Pending', Now', typed', Counting', caps') /\ GivenIsTyped'
    <3>1. ~lost
      BY <2>7, <1>5
    <3>2. /\ CatchesUp(Rest, After(Now, raw_key), typed, Counting, caps)
          /\ GivesTyped(After(Now, raw_key), raw_key, typed)
      BY <3>1, <1>1, NextCode
    <3>3. GivenIsTyped
      BY <3>1 DEF KInv
    <3>4. /\ After(Now, raw_key).n = Len(given) + 1 /\ After(Now, raw_key).shift = shift_key_pressed'
          /\ After(Now, raw_key).caps = ("capslock" \in indicator_status)
      BY <2>5, <2>6, <1>6 DEF Now
    <3>5. Len(given) + 1 \in 1 .. Len(typed)
      BY <3>2, <3>4 DEF GivesTyped
    <3>6. typed[Len(given) + 1] = char
      BY <3>2, <3>4 DEF GivesTyped, char, KeyOf
    <3>7. Len(given') <= Len(typed)
      BY <3>5, <2>5, <1>1
    <3>8. ASSUME NEW i \in 1 .. Len(given') PROVE given'[i] = typed[i]
      <4>1. CASE i = Len(given) + 1
        BY <4>1, <3>6, <3>8, <2>5
      <4>2. CASE i # Len(given) + 1
        <5>1. i \in 1 .. Len(given)
          BY <4>2, <2>5, <1>1
        <5> QED  BY <5>1, <3>3, <3>8, <2>5 DEF GivenIsTyped
      <4> QED  BY <4>1, <4>2
    <3> QED  BY <3>2, <3>7, <3>8, <2>6, <1>6, <1>7 DEF GivenIsTyped
  <2>8. AmongTyped(Pending', given', typed')
    BY <2>4, <1>1, <1>4, <1>6, <1>7, NextCode
  <2> QED  BY <2>3, <2>7, <2>8 DEF KInv
<1>10. CASE ~fits
  <2>1. Types'
    BY <1>1, <1>5, <1>6, <1>8, <1>10 DEF Types
  <2>2. lost' /\ given' = given
    BY <1>5, <1>10 DEF given
  <2>3. AmongTyped(Pending', given', typed')
    BY <2>2, <1>1, <1>6, <1>7, NextCode
  <2> QED  BY <2>1, <2>2, <2>3 DEF KInv
<1> QED  BY <1>9, <1>10

LEMMA KInvInit == Init => KInv
<1> SUFFICES ASSUME Init PROVE KInv
  OBVIOUS
<1>1. /\ wire = <<Ack, Ack>> /\ raw_keydata_q = << >> /\ user_keydata_q = << >> /\ raw_key = None
      /\ read = << >> /\ typed = << >> /\ down = {} /\ overruled = {} /\ caps = FALSE
  BY DEF Init
<1>2. << >> \in Seq(Codes) /\ << >> \in Seq(Chars) /\ Len(<< >>) = 0 /\ <<Ack, Ack>> \in Seq(Codes)
  BY EmptySeq, CodesTyped
<1>3. /\ shift_key_pressed = FALSE /\ ctrl_key_pressed = FALSE /\ alt_key_pressed = FALSE
      /\ indicator_status = {"numlock"} /\ lost = FALSE
  BY DEF Init
<1>4. Types
  <2>1. Len(raw_keydata_q) <= RAW_KEY_DATA_Q_SIZE /\ Len(user_keydata_q) <= USER_KEY_DATA_Q_SIZE
    BY <1>1, <1>2, KeyboardAssumption
  <2>2. indicator_status \subseteq Locks
    BY <1>3 DEF Locks
  <2> QED  BY <2>1, <2>2, <1>1, <1>2, <1>3 DEF Types
<1>5. Popped = << >> /\ given = << >>
  <2>1. << >> \o << >> = << >>
    BY <1>2, ConcatEmptySeq
  <2> QED  BY <2>1, <1>1 DEF Popped, given
<1>6. Pending = << >> \o <<Ack, Ack>>
  <2>1. << >> \o << >> = << >>
    BY <1>2, ConcatEmptySeq
  <2> QED  BY <2>1, <1>1, <1>5 DEF Pending
<1>7. /\ Now \in States /\ Now.shift = FALSE
      /\ Now.ctrl = FALSE /\ Now.alt = FALSE /\ Now.caps = FALSE /\ Now.n = 0
  <2>1. ("capslock" \in indicator_status) = FALSE /\ Len(given) = 0
    BY <1>2, <1>3, <1>5
  <2>2. Now = [shift |-> FALSE, ctrl |-> FALSE, alt |-> FALSE, caps |-> FALSE, n |-> 0]
    BY <2>1, <1>3 DEF Now
  <2> QED  BY <2>2 DEF States
<1>8. CatchesUp(<< >>, Now, typed, Counting, caps)
  <2>1. DEFINE run == [i \in 0 .. 0 |-> Now]
  <2>2. run \in [0 .. Len(<< >>) -> States] /\ run[0] = Now /\ run[Len(<< >>)] = Now
    BY <1>2, <1>7
  <2>3. \A i \in 1 .. Len(<< >>) : FALSE
    BY <1>2
  <2> HIDE DEF run
  <2>4. IsRun(run, << >>, Now)
    BY <2>2, <2>3 DEF IsRun
  <2>5. UpToDate(Now, typed, Counting, caps)
    <3>1. ShiftIsDown({}) = FALSE /\ ({} \cap {"ctrl", "rctrl"} # {}) = FALSE /\ ("alt" \in {}) = FALSE
      BY DEF ShiftIsDown
    <3>2. Counting = {}
      BY <1>1 DEF Counting
    <3> QED  BY <3>1, <3>2, <1>1, <1>2, <1>7 DEF UpToDate
  <2>6. Catches(run, << >>, typed, Counting, caps)
    BY <2>2, <2>3, <2>5 DEF Catches
  <2> QED  BY <2>2, <2>4, <2>6 DEF CatchesUp
<1>9. CatchesUp(Pending, Now, typed, Counting, caps)
  BY <1>1, <1>2, <1>6, <1>8, AcksAdded
<1>10. GivenIsTyped
  BY <1>1, <1>2, <1>5 DEF GivenIsTyped
<1>11. AmongTyped(<< >>, << >>, << >>)
  <2>1. DEFINE place == [i \in 1 .. 0 |-> 0]
  <2>2. \A i \in 1 .. Len(<< >>) : FALSE
    BY <1>2
  <2>3. place \in [1 .. Len(<< >>) -> 1 .. Len(<< >>)] /\ place \in [1 .. Len(<< >>) -> 0 .. Len(<< >>)]
    BY <1>2
  <2> HIDE DEF place
  <2>4. Places(place, << >>, << >>) /\ Sources(place, << >>, place, << >>, << >>)
    BY <2>2, <2>3 DEF Places, Sources
  <2> QED  BY <2>3, <2>4 DEF AmongTyped
<1>12. AmongTyped(Pending, given, typed)
  BY <1>1, <1>2, <1>5, <1>6, <1>11, AcksAdded
<1> QED  BY <1>4, <1>9, <1>10, <1>12 DEF KInv

LEMMA KInvStep == KInv /\ [Next]_vars => KInv'
<1> SUFFICES ASSUME KInv, [Next]_vars PROVE KInv'
  OBVIOUS
<1>1. ASSUME NEW k \in Keys, Press(k) PROVE KInv'
  BY <1>1, PressKeeps
<1>2. ASSUME NEW k \in Keys, Release(k) PROVE KInv'
  BY <1>2, ReleaseKeeps
<1>3. CASE Kbd_IRQ_Handler
  BY <1>3, InterruptKeeps
<1>4. CASE KbdpPopRawKeyData
  BY <1>4, PopKeeps
<1>5. CASE KeyReleased
  BY <1>5, ReleasedKeeps
<1>6. CASE LockPressed
  BY <1>6, LockKeeps
<1>7. CASE KeyPressed
  BY <1>7, PressedKeeps
<1>8. CASE KbdGetKey
  BY <1>8, GetKeyKeeps
<1>9. CASE UNCHANGED vars
  <2>1. /\ raw_key' = raw_key /\ raw_keydata_q' = raw_keydata_q /\ user_keydata_q' = user_keydata_q
        /\ wire' = wire /\ read' = read /\ typed' = typed
        /\ down' = down /\ overruled' = overruled /\ Counting' = Counting /\ caps' = caps /\ lost' = lost
        /\ shift_key_pressed' = shift_key_pressed /\ ctrl_key_pressed' = ctrl_key_pressed
        /\ alt_key_pressed' = alt_key_pressed /\ indicator_status' = indicator_status
    BY <1>9 DEF vars, user, queues, flags, Counting
  <2>2. Types'
    BY <2>1 DEF KInv, Types
  <2>3. Pending' = Pending /\ Now' = Now /\ given' = given
    BY <2>1 DEF Pending, Popped, Now, given
  <2> QED  BY <2>1, <2>2, <2>3, SameKeeps
<1> QED  BY <1>1, <1>2, <1>3, <1>4, <1>5, <1>6, <1>7, <1>8, <1>9 DEF Next

\* The codes on their way account for what is typed and not yet given, always.
THEOREM KeyboardInvariant == Spec => []KInv
<1>1. Init => KInv
  BY KInvInit
<1>2. KInv /\ [Next]_vars => KInv'
  BY KInvStep
<1> QED  BY <1>1, <1>2, PTL DEF Spec

----------------------------------------------------------------------------
(* What it means.                                                          *)

LEMMA NothingPending ==
    ASSUME KInv, Translated, ~lost
    PROVE  UpToDate(Now, typed, Counting, caps)
<1>1. Pending = << >>
  <2>1. << >> \in Seq(Codes)
    BY EmptySeq
  <2>2. << >> \o << >> = << >>
    BY <2>1, ConcatEmptySeq
  <2> QED  BY <2>2 DEF Translated, Pending, Popped
<1>2. PICK run \in [0 .. Len(Pending) -> States] :
        IsRun(run, Pending, Now) /\ Catches(run, Pending, typed, Counting, caps)
  BY DEF KInv, CatchesUp
<1>3. Len(Pending) = 0
  BY <1>1, EmptySeq
<1> QED  BY <1>2, <1>3 DEF IsRun, Catches

\* The flags and the capslock indicator are the keyboard's, but for the key of a
\* pair that stays down when the other is let go, whatever keys the user has.
THEOREM ModifiersCorrect == Spec => []ModifiersFollow
<1>1. KInv => ModifiersFollow
  <2> SUFFICES ASSUME KInv PROVE ModifiersFollow
    OBVIOUS
  <2>1. TypeOK
    BY DEF KInv, Types, TypeOK
  <2>2. ASSUME Translated, ~lost
        PROVE  /\ shift_key_pressed = ShiftIsDown(Counting)
               /\ ctrl_key_pressed = (Counting \cap {"ctrl", "rctrl"} # {})
               /\ alt_key_pressed = ("alt" \in down)
               /\ ("capslock" \in indicator_status) = caps
    <3>1. UpToDate(Now, typed, Counting, caps)
      BY <2>2, NothingPending
    <3>2. /\ Now.shift = shift_key_pressed /\ Now.ctrl = ctrl_key_pressed /\ Now.alt = alt_key_pressed
          /\ Now.caps = ("capslock" \in indicator_status)
      BY DEF Now
    <3>3. ("alt" \in Counting) = ("alt" \in down)
      BY DEF KInv, Types, Counting
    <3> QED  BY <3>1, <3>2, <3>3 DEF UpToDate
  <2> QED  BY <2>1, <2>2 DEF ModifiersFollow
<1> QED  BY <1>1, KeyboardInvariant, PTL

\* What is given is what was typed, in the order and the case it was typed in,
\* as long as no queue was full, whatever keys the user has.
THEOREM TypedCorrect == Spec => []TypedInOrder
<1>1. KInv => TypedInOrder
  <2> SUFFICES ASSUME KInv, ~lost
               PROVE  /\ IsPrefix(read \o user_keydata_q, typed)
                      /\ Translated => read \o user_keydata_q = typed
    BY DEF TypedInOrder
  <2>1. given \in Seq(Chars) /\ typed \in Seq(Chars) /\ Len(given) \in Nat /\ Len(typed) \in Nat
    BY Typed DEF KInv, Types
  <2>2. Len(given) <= Len(typed) /\ \A i \in 1 .. Len(given) : given[i] = typed[i]
    BY DEF KInv, GivenIsTyped
  <2>3. IsPrefix(given, typed)
    <3>1. SubSeq(given, 1, Len(given)) = given
      BY <2>1, SubSeqFull
    <3>2. \A i \in 1 .. Len(given) : typed[i] \in Chars
      BY <2>1, <2>2, ElementOfSeq
    <3>3. /\ SubSeq(typed, 1, Len(given)) \in Seq(Chars)
          /\ Len(SubSeq(typed, 1, Len(given))) = (IF 1 <= Len(given) THEN Len(given) - 1 + 1 ELSE 0)
          /\ \A i \in 1 .. (Len(given) - 1 + 1) : SubSeq(typed, 1, Len(given))[i] = typed[1 + i - 1]
      BY <2>1, <3>2, SubSeqProperties
    <3>4. /\ Len(SubSeq(typed, 1, Len(given))) = Len(given)
          /\ \A i \in 1 .. Len(given) : SubSeq(typed, 1, Len(given))[i] = typed[i]
      BY <2>1, <3>3
    <3>5. SubSeq(typed, 1, Len(given)) = given
      BY <2>1, <2>2, <3>3, <3>4, SeqEqual
    <3> QED  BY <2>2, <3>1, <3>5 DEF IsPrefix
  <2>4. ASSUME Translated PROVE given = typed
    <3>1. Len(given) = Len(typed)
      BY <2>4, NothingPending DEF UpToDate, Now
    <3> QED  BY <2>1, <2>2, <3>1, SeqEqual
  <2> QED  BY <2>3, <2>4 DEF given
<1> QED  BY <1>1, KeyboardInvariant, PTL

\* Even with full queues no key is invented, repeated or moved.
THEOREM GivenCorrect == Spec => []NothingInvented
<1>1. KInv => NothingInvented
  <2> SUFFICES ASSUME KInv PROVE NothingInvented
    OBVIOUS
  <2>1. given \in Seq(Chars) /\ typed \in Seq(Chars) /\ AmongTyped(Pending, given, typed)
    BY Typed DEF KInv, Types
  <2>2. \E kept \in SUBSET DOMAIN typed :
          /\ Cardinality(kept) = Len(given)
          /\ \A i \in kept : KeyIn(typed[i]) = KeyIn(given[Cardinality({j \in kept : j <= i})])
    BY <2>1, PlacesCount
  <2> QED  BY <2>2 DEF NothingInvented, given
<1> QED  BY <1>1, KeyboardInvariant, PTL

----------------------------------------------------------------------------
(* The rings the queues above are.  A ring is a bounded FIFO queue for     *)
(* every size a BYTE can index and any items.  The inductive invariant is  *)
(* RingOK: with tail tied to head and cnt, the entry a push writes is      *)
(* outside the queued ones, and what follows the head after a pop is what  *)
(* followed it before.                                                     *)

\* Counting from index h around the end of the array.
WrapsFrom(h) ==
    /\ Next1(h) \in Slots
    /\ \A k \in 0 .. Size : Wrap(h + k) \in Slots
    /\ \A k \in 0 .. (Size - 1) : /\ Next1(Wrap(h + k)) = Wrap(h + (k + 1))
                                /\ Wrap(Next1(h) + k) = Wrap(h + (k + 1))
    /\ \A j, k \in 0 .. (Size - 1) : j # k => Wrap(h + j) # Wrap(h + k)
    /\ Wrap(h + 0) = h

LEMMA WrapFacts ==
    ASSUME NEW h \in Slots
    PROVE  WrapsFrom(h)
<1>1. Size \in Nat \ {0} /\ Size < 256 /\ h \in Nat /\ h < Size
  BY SizeAssumption DEF Slots
<1>2. \A i \in Slots : Next1(i) = IF i + 1 = Size THEN 0 ELSE i + 1
  BY <1>1 DEF Next1, Byte, Slots
<1>3. \A k \in 0 .. Size : Wrap(h + k) \in Slots
  BY <1>1 DEF Wrap, Slots
<1>4. ASSUME NEW k \in 0 .. (Size - 1)
      PROVE  /\ Next1(Wrap(h + k)) = Wrap(h + (k + 1))
             /\ Wrap(Next1(h) + k) = Wrap(h + (k + 1))
  <2>1. Wrap(h + k) \in Slots
    BY <1>1, <1>3
  <2>2. Next1(Wrap(h + k)) = Wrap(h + (k + 1))
    BY <1>1, <1>2, <2>1 DEF Wrap
  <2>3. Wrap(Next1(h) + k) = Wrap(h + (k + 1))
    BY <1>1, <1>2 DEF Wrap
  <2> QED
    BY <2>2, <2>3
<1>5. \A j, k \in 0 .. (Size - 1) : j # k => Wrap(h + j) # Wrap(h + k)
  BY <1>1 DEF Wrap
<1>6. Wrap(h + 0) = h /\ Next1(h) \in Slots
  BY <1>1, <1>2 DEF Wrap, Slots
<1> QED
  BY <1>3, <1>4, <1>5, <1>6 DEF WrapsFrom

\* The queued items are a sequence of cnt items.
LEMMA ContentsType ==
    ASSUME NEW q, IsRing(q)
    PROVE  /\ Contents(q) \in Seq(Items)
           /\ Len(Contents(q)) = q.cnt
           /\ \A i \in 1 .. q.cnt : Contents(q)[i] = q.queue[Place(q, i - 1)]
<1>1. q.cnt \in Nat /\ q.cnt <= Size /\ q.head \in Slots /\ q.queue \in [Slots -> Items]
  BY SizeAssumption DEF IsRing
<1>2. ASSUME NEW i \in 1 .. q.cnt PROVE Place(q, i - 1) \in Slots
  <2>1. i - 1 \in 0 .. Size /\ WrapsFrom(q.head)
    BY <1>1, SizeAssumption, WrapFacts
  <2> QED
    BY <2>1 DEF Place, WrapsFrom
<1>3. \A i \in 1 .. q.cnt : q.queue[Place(q, i - 1)] \in Items
  BY <1>1, <1>2
<1>4. Contents(q) \in [1 .. q.cnt -> Items]
  BY <1>3 DEF Contents
<1>5. Contents(q) \in Seq(Items)
  BY <1>1, <1>4, SeqDef
<1>6. Len(Contents(q)) = q.cnt
  BY <1>1 DEF Contents
<1>7. \A i \in 1 .. q.cnt : Contents(q)[i] = q.queue[Place(q, i - 1)]
  BY DEF Contents
<1> QED
  BY <1>5, <1>6, <1>7

\* A push that finds room appends.
LEMMA PushAppends ==
    ASSUME NEW q, IsRing(q), NEW x \in Items, ~IsFull(q)
    PROVE  /\ IsRing(PushItem(q, x))
           /\ Contents(PushItem(q, x)) = Append(Contents(q), x)
<1> PICK r : r = PushItem(q, x)
  OBVIOUS
<1>1. /\ q.cnt \in Nat /\ q.cnt < Size /\ q.head \in Slots /\ q.tail \in Slots
      /\ q.queue \in [Slots -> Items] /\ q.tail = Place(q, q.cnt)
  BY SizeAssumption DEF IsRing, IsFull
<1>2. /\ r.cnt = q.cnt + 1
      /\ r.head = q.head
      /\ r.tail = Next1(q.tail)
      /\ r.queue = [q.queue EXCEPT ![q.tail] = x]
  BY <1>1, SizeAssumption DEF PushItem, IsRing, Byte
<1>3. Next1(q.tail) = Wrap(q.head + (q.cnt + 1)) /\ Next1(q.tail) \in Slots
  <2>1. WrapsFrom(q.head) /\ WrapsFrom(q.tail) /\ q.cnt \in 0 .. (Size - 1)
    BY <1>1, SizeAssumption, WrapFacts
  <2> QED
    BY <1>1, <2>1 DEF Place, WrapsFrom
<1>4. IsRing(r)
  <2>1. /\ Byte(q.cnt + 1) \in 0 .. Size
        /\ [q.queue EXCEPT ![q.tail] = x] \in [Slots -> Items]
    BY <1>1, SizeAssumption DEF Byte
  <2>2. r \in [cnt : 0 .. Size, head : Slots, tail : Slots, queue : [Slots -> Items]]
    BY <1>3, <2>1 DEF PushItem, IsRing
  <2>3. r.tail = Place(r, r.cnt)
    BY <1>2, <1>3 DEF Place
  <2> QED
    BY <2>2, <2>3 DEF IsRing
<1>5. ASSUME NEW i \in 1 .. q.cnt
      PROVE  Place(q, i - 1) \in Slots /\ Place(q, i - 1) # q.tail
  <2>1. /\ WrapsFrom(q.head) /\ q.cnt \in 0 .. (Size - 1)
        /\ i - 1 \in 0 .. (Size - 1) /\ i - 1 \in 0 .. Size /\ i - 1 # q.cnt
    BY <1>1, SizeAssumption, WrapFacts
  <2> QED
    BY <1>1, <2>1 DEF Place, WrapsFrom
<1>6. \A i \in 1 .. (q.cnt + 1) : Place(r, i - 1) = Place(q, i - 1)
  BY <1>2 DEF Place
<1>7. /\ Contents(q) \in Seq(Items) /\ Len(Contents(q)) = q.cnt
      /\ \A i \in 1 .. q.cnt : Contents(q)[i] = q.queue[Place(q, i - 1)]
  BY ContentsType
<1>8. /\ Contents(r) \in Seq(Items) /\ Len(Contents(r)) = q.cnt + 1
      /\ \A i \in 1 .. (q.cnt + 1) : Contents(r)[i] = r.queue[Place(q, i - 1)]
  <2>1. /\ Contents(r) \in Seq(Items) /\ Len(Contents(r)) = r.cnt
        /\ \A i \in 1 .. r.cnt : Contents(r)[i] = r.queue[Place(r, i - 1)]
    BY <1>4, ContentsType
  <2> QED
    BY <1>2, <1>6, <2>1
<1>9. \A i \in 1 .. (q.cnt + 1) : Contents(r)[i] = Append(Contents(q), x)[i]
  <2>1. ASSUME NEW i \in 1 .. q.cnt
        PROVE  Contents(r)[i] = Contents(q)[i]
    <3>1. Place(q, i - 1) \in Slots /\ Place(q, i - 1) # q.tail
      BY <1>5
    <3>2. r.queue[Place(q, i - 1)] = q.queue[Place(q, i - 1)]
      BY <1>1, <1>2, <3>1
    <3>3. i \in 1 .. (q.cnt + 1)
      BY <1>1
    <3> QED
      BY <1>7, <1>8, <3>2, <3>3
  <2>2. Contents(r)[q.cnt + 1] = x
    BY <1>1, <1>2, <1>8
  <2> QED
    BY <1>1, <1>7, <2>1, <2>2, AppendProperties
<1>10. Contents(r) = Append(Contents(q), x)
  <2>1. Append(Contents(q), x) \in Seq(Items) /\ Len(Append(Contents(q), x)) = q.cnt + 1
    BY <1>7, AppendProperties
  <2> QED
    BY <1>8, <1>9, <2>1, SeqEqual
<1> QED
  BY <1>4, <1>10

\* A pop of a queue that holds something removes its oldest item.
LEMMA PopTakesHead ==
    ASSUME NEW q, IsRing(q), ~IsEmpty(q)
    PROVE  /\ IsRing(PopItem(q))
           /\ Contents(q) # << >>
           /\ FrontItem(q) = Head(Contents(q))
           /\ Contents(PopItem(q)) = Tail(Contents(q))
<1> PICK r : r = PopItem(q)
  OBVIOUS
<1>1. /\ q.cnt \in Nat \ {0} /\ q.cnt <= Size /\ q.head \in Slots /\ q.tail \in Slots
      /\ q.queue \in [Slots -> Items] /\ q.tail = Place(q, q.cnt)
  BY SizeAssumption DEF IsRing, IsEmpty
<1>2. r.cnt = q.cnt - 1 /\ r.head = Next1(q.head) /\ r.tail = q.tail /\ r.queue = q.queue
  BY <1>1, SizeAssumption DEF PopItem, IsRing, Byte
<1>3. /\ Next1(q.head) \in Slots
      /\ \A k \in 0 .. (Size - 1) : Wrap(Next1(q.head) + k) = Wrap(q.head + (k + 1))
  BY <1>1, WrapFacts DEF WrapsFrom
<1>4. IsRing(r)
  <2>1. Byte(q.cnt - 1) \in 0 .. Size
    BY <1>1, SizeAssumption DEF Byte
  <2>2. r \in [cnt : 0 .. Size, head : Slots, tail : Slots, queue : [Slots -> Items]]
    BY <1>3, <2>1 DEF PopItem, IsRing
  <2>3. q.cnt - 1 \in 0 .. (Size - 1) /\ (q.cnt - 1) + 1 = q.cnt
    BY <1>1, SizeAssumption
  <2>4. r.tail = Place(r, r.cnt)
    BY <1>1, <1>2, <1>3, <2>3 DEF Place
  <2> QED
    BY <2>2, <2>4 DEF IsRing
<1>5. ASSUME NEW i \in 1 .. (q.cnt - 1)
      PROVE  Place(r, i - 1) = Place(q, i)
  <2>1. i - 1 \in 0 .. (Size - 1) /\ (i - 1) + 1 = i
    BY <1>1, SizeAssumption
  <2> QED
    BY <1>2, <1>3, <2>1 DEF Place
<1>6. /\ Contents(q) \in Seq(Items) /\ Len(Contents(q)) = q.cnt
      /\ \A i \in 1 .. q.cnt : Contents(q)[i] = q.queue[Place(q, i - 1)]
  BY ContentsType
<1>7. /\ Contents(r) \in Seq(Items) /\ Len(Contents(r)) = q.cnt - 1
      /\ \A i \in 1 .. (q.cnt - 1) : Contents(r)[i] = q.queue[Place(q, i)]
  BY <1>2, <1>4, <1>5, ContentsType
<1>8. Contents(q) # << >>
  BY <1>1, <1>6, EmptySeq
<1>9. FrontItem(q) = Head(Contents(q))
  <2>1. Head(Contents(q)) = Contents(q)[1]
    BY <1>6, <1>8
  <2>2. Contents(q)[1] = q.queue[Wrap(q.head + 0)]
    BY <1>1, <1>6 DEF Place
  <2> QED
    BY <1>1, <2>1, <2>2, WrapFacts DEF FrontItem, WrapsFrom
<1>10. Contents(r) = Tail(Contents(q))
  <2>1. \A i \in 1 .. (q.cnt - 1) : Contents(r)[i] = Tail(Contents(q))[i]
    BY <1>1, <1>6, <1>7, <1>8, HeadTailProperties
  <2> QED
    BY <1>1, <1>6, <1>7, <1>8, <2>1, HeadTailProperties, SeqEqual
<1> QED
  BY <1>4, <1>8, <1>9, <1>10

LEMMA RingStarts == RingInit => RingOK
BY SizeAssumption DEF RingInit, RingOK, IsRing, Zeroed, Slots, Place, Wrap

LEMMA RingStep == RingOK /\ [RingNext]_ringVars => RingOK'
BY PushAppends, PopTakesHead DEF RingOK, RingNext, Push, Pop, ringVars

\* The indices of the ring stay inside the array and agree with the count.
THEOREM RingCorrect == RingSpec => []RingOK
BY RingStarts, RingStep, PTL DEF RingSpec

\* The ring implements the bounded FIFO queue, for every size up to 255.
THEOREM RingImplementsFifo == RingSpec => FifoSpec
<1>1. RingInit => Fifo!Init
  <2> SUFFICES ASSUME RingInit PROVE Fifo!Init
    OBVIOUS
  <2>1. IsRing(ring) /\ ring.cnt = 0
    <3>1. RingOK
      BY RingStarts
    <3> QED
      BY <3>1 DEF RingInit, RingOK, Zeroed
  <2>2. Contents(ring) = << >>
    BY <2>1, ContentsType, EmptySeq
  <2> QED
    BY <2>2 DEF RingInit, Fifo!Init, Outcome, Fifo!Outcome
<1>2. RingOK /\ [RingNext]_ringVars => [Fifo!Next]_(Fifo!fifoVars)
  <2> SUFFICES ASSUME RingOK, [RingNext]_ringVars PROVE [Fifo!Next]_(Fifo!fifoVars)
    OBVIOUS
  <2>1. /\ IsRing(ring) /\ Contents(ring) \in Seq(Items)
        /\ Len(Contents(ring)) = ring.cnt /\ ring.cnt \in 0 .. Size
    BY ContentsType DEF RingOK, IsRing
  <2>2. CASE \E x \in Items : Push(x)
    <3>1. PICK x \in Items : Push(x)
      BY <2>2
    <3>2. CASE ~IsFull(ring)
      <4>1. Contents(ring)' = Append(Contents(ring), x)
        BY <2>1, <3>1, <3>2, PushAppends DEF Push, Contents, Place, Wrap
      <4>2. Fifo!Push(x)
        BY <2>1, <3>1, <3>2, <4>1, SizeAssumption
        DEF Push, IsFull, Fifo!Push, Outcome, Fifo!Outcome
      <4> QED
        BY <4>2 DEF Fifo!Next
    <3>3. CASE IsFull(ring)
      <4>1. Len(Contents(ring)) = Size
        BY <2>1, <3>3, SizeAssumption DEF IsFull
      <4>2. Contents(ring)' = Contents(ring)
        BY <3>1, <3>3 DEF Push, Contents, Place, Wrap
      <4>3. Fifo!Push(x)
        BY <3>1, <3>3, <4>1, <4>2 DEF Push, Fifo!Push, Outcome, Fifo!Outcome
      <4> QED
        BY <4>3 DEF Fifo!Next
    <3> QED
      BY <3>2, <3>3
  <2>3. CASE Pop
    <3>1. CASE ~IsEmpty(ring)
      <4>1. /\ Contents(ring)' = Tail(Contents(ring))
            /\ Contents(ring) # << >>
            /\ FrontItem(ring) = Head(Contents(ring))
        BY <2>1, <2>3, <3>1, PopTakesHead DEF Pop, Contents, Place, Wrap
      <4>2. Fifo!Pop
        BY <2>3, <3>1, <4>1 DEF Pop, Fifo!Pop, Outcome, Fifo!Outcome
      <4> QED
        BY <4>2 DEF Fifo!Next
    <3>2. CASE IsEmpty(ring)
      <4>1. Contents(ring) = << >>
        BY <2>1, <3>2, EmptySeq DEF IsEmpty
      <4>2. Fifo!Pop
        BY <2>3, <3>2, <4>1
        DEF Pop, Fifo!Pop, Outcome, Fifo!Outcome, Contents, Place, Wrap
      <4> QED
        BY <4>2 DEF Fifo!Next
    <3> QED
      BY <3>1, <3>2
  <2>4. CASE UNCHANGED ringVars
    BY <2>4 DEF ringVars, Fifo!fifoVars, Contents, Place, Wrap
  <2> QED
    BY <2>2, <2>3, <2>4 DEF RingNext
<1> QED
  BY <1>1, <1>2, RingStarts, RingStep, PTL DEF RingSpec, FifoSpec, Fifo!Spec
=============================================================================
