-------------------------- MODULE FileTableProofs --------------------------
(***************************************************************************)
(* Theorems about FileTable, for any number of jobs and of failed opens.     *)
(*                                                                         *)
(* A step keeps the invariant if it leaves no two calls where they meet; the  *)
(* lemmas <Action>Keeps say so of each action.                              *)
(***************************************************************************)
EXTENDS FileTable, FiniteSetTheorems, SequenceTheorems, WellFoundedInduction, TLAPS

-----------------------------------------------------------------------------
(* The invariant.  All of it is about runs in which no two calls have met in  *)
(* the table: it says what each call has in its hands and why nothing else    *)
(* changes it.                                                             *)

Contexts == 0 .. 6 \* None and the places of objects
Slots == [filesystem : BOOLEAN, file : Contexts]
Calls == [function : Functions, name : Names]
Owners == (Cores \X Names) \cup {Free}

Opening == {"open", "grow", "slot", "fs_open", "done", "undo"}
Writing == {"write", "written", "fs_write"}
Closing == {"close", "fs_close", "clear_fs", "clear_file"}

TypesOK ==
    /\ pc \in [Cores -> {"next"} \cup Opening \cup Writing \cup Closing]
    /\ todo \in [Cores -> Seq(Calls)]
    /\ fd \in [Cores -> [Names -> Nat]] /\ at \in [Cores -> Nat]
    /\ file \in [Cores -> Contexts] /\ mine \in [Cores -> Nat]
    /\ table \in Seq(Slots) /\ copy \in Seq(Slots) /\ array \in Nat
    /\ objects \in [1 .. 6 -> Owners]
    /\ owner \in [Functions -> Cores \cup {Nobody}]
    /\ contexts \in Int /\ fails \in Nat

\* What a core has still to do: no call twice, and no open without its close.
Ordered(calls) ==
    /\ \A i, j \in 1 .. Len(calls) : calls[i] = calls[j] => i = j
    /\ \A i \in 1 .. Len(calls) : calls[i].function = "open" =>
           \E j \in i + 1 .. Len(calls) : calls[j] = Call("close", calls[i].name)

OrderOK == \A c \in Cores : Ordered(todo[c])

\* What is open has still to be closed and is not to be opened.
PairedOK == \A c \in Cores, n \in Names : fd[c][n] # None =>
    /\ \E i \in 1 .. Len(todo[c]) : todo[c][i] = Call("close", n)
    /\ \A i \in 1 .. Len(todo[c]) : todo[c][i] # Call("open", n)

\* The label and the call.
PlaceOK == \A c \in Cores : pc[c] # "next" =>
    /\ todo[c] # <<>>
    /\ Head(todo[c]).function =
         IF pc[c] \in Opening THEN "open" ELSE IF pc[c] \in Writing THEN "write" ELSE "close"

\* Who is in a function, but for the end of _write, owns its mutex.
LockOK == \A c \in Cores :
    pc[c] \notin {"next", "fs_write"} => owner[Head(todo[c]).function] = c

InTable(c) == at[c] \in 1 .. Len(table)

\* An open has a slot that nobody else has, and then a file for it.
OpenAt(c) ==
    /\ pc[c] \in {"slot", "fs_open", "done", "undo"} => InTable(c) /\ ~table[at[c]].filesystem
    /\ pc[c] \in {"fs_open", "done", "undo"} =>
           /\ file[c] \in 1 .. 6 /\ table[at[c]].file = file[c]
           /\ objects[file[c]] = <<c, Name(c)>>

OpenOK == \A c \in Cores : OpenAt(c)

\* A table that is being moved is not changed meanwhile.
GrowOK == \A c \in Cores : pc[c] = "grow" => copy = table /\ table # <<>>

\* A write or a close works on a file that is open; what a close clears is what was its.
UseAt(c) ==
    /\ pc[c] \in {"write", "written", "fs_write", "close", "fs_close"} => fd[c][Name(c)] # None
    /\ pc[c] \in {"written", "fs_write", "fs_close"} =>
           at[c] = fd[c][Name(c)] /\ file[c] = table[at[c]].file
    /\ pc[c] \in {"clear_fs", "clear_file"} =>
           InTable(c) /\ mine[c] = array /\ fd[c][Name(c)] = None
    /\ pc[c] = "clear_fs" => table[at[c]].filesystem /\ \A d \in Cores, n \in Names : fd[d][n] # at[c]
    /\ pc[c] = "clear_file" => ~table[at[c]].filesystem

UseOK == \A c \in Cores : UseAt(c)

\* What is being cleared has not been taken again.
ApartOK == \A c, d \in Cores :
    pc[c] \in {"slot", "fs_open", "done", "undo"} /\ pc[d] = "clear_file" => at[c] # at[d]

\* Every descriptor is a slot with a file system and a file of its own.
Own(c, n) == fd[c][n] # None =>
    /\ fd[c][n] \in 1 .. Len(table) /\ table[fd[c][n]].filesystem
    /\ table[fd[c][n]].file \in 1 .. 6 /\ objects[table[fd[c][n]].file] = <<c, n>>

OwnOK == \A c \in Cores, n \in Names : Own(c, n)

\* Every file is reached by its descriptor, or is being opened.
Reached(o, c, n) == objects[o] = <<c, n>> =>
    \/ fd[c][n] # None /\ table[fd[c][n]].file = o
    \/ pc[c] \in {"fs_open", "done", "undo"} /\ Name(c) = n /\ file[c] = o

ReachedOK == \A o \in 1 .. 6, c \in Cores, n \in Names : Reached(o, c, n)

\* The files with a context: not those whose f_open is not yet back, or has failed.
Pending == {file[c] : c \in {d \in Cores : pc[d] \in {"fs_open", "undo"}}}
WithContext == {o \in 1 .. 6 : objects[o] # Free} \ Pending
CountOK == contexts =< fails + Cardinality(WithContext)

NobodyMeets == ~Meets(core0, core1) /\ ~Meets(core1, core0)

FileInv ==
    /\ TypesOK /\ OrderOK /\ PairedOK /\ PlaceOK /\ LockOK /\ OpenOK /\ GrowOK /\ UseOK
    /\ ApartOK /\ OwnOK /\ SlotsReturn /\ ReachedOK /\ CountOK /\ NobodyMeets

IInv == raced \in BOOLEAN /\ (~raced => FileInv)

-----------------------------------------------------------------------------
(* Names, places, and the least of a set.                                  *)

\* The two cores and the three names are what they seem, and six places are enough.
LEMMA Places ==
    /\ Cores = {core0, core1} /\ core0 # core1 /\ Nobody \notin Cores
    /\ IsFiniteSet(Names) /\ Cardinality(Names) = 3 /\ 2 * Cardinality(Names) = 6
    /\ \A c \in Cores : \A n : <<c, n>> # Free
<1>1. Cores = {core0, core1} /\ core0 # core1 /\ Nobody \notin Cores
  BY TableAssumption DEF Cores
<1>2. Cardinality({"events"}) = 1 /\ IsFiniteSet({"events"})
  BY FS_Singleton
<1>3. {"events"} \cup {"telemetry"} = {"events", "telemetry"} /\ "telemetry" \notin {"events"}
  OBVIOUS
<1>4. IsFiniteSet({"events", "telemetry"}) /\ Cardinality({"events", "telemetry"}) = 2
  BY <1>2, <1>3, FS_AddElement
<1>5. {"events", "telemetry"} \cup {"sensor"} = Names /\ "sensor" \notin {"events", "telemetry"}
  BY DEF Names
<1>6. IsFiniteSet(Names) /\ Cardinality(Names) = 3
  BY <1>4, <1>5, FS_AddElement
<1>7. \A c \in Cores : \A n : <<c, n>> # Free
  BY <1>1 DEF Free
<1> QED
  BY <1>1, <1>6, <1>7

\* Min of FiniteSetsExt is the least element, also of an unbounded set of naturals.
LEMMA LeastOf ==
    ASSUME NEW S \in SUBSET Nat, S # {}
    PROVE  Min(S) \in S /\ \A y \in S : Min(S) =< y
<1>1. \E x \in S : \A y \in S : x =< y
  <2>1. PICK x \in S : \A y \in S : ~(<<y, x>> \in OpToRel(<, Nat))
    BY NatLessThanWellFounded, WFMin
  <2>2. \A y \in S : ~(y < x)
    BY <2>1 DEF OpToRel
  <2> QED
    BY <2>2
<1> QED
  BY <1>1 DEF Min

\* A concatenation is known from its length and its elements.
LEMMA JoinIs ==
    ASSUME NEW S, NEW s \in Seq(S), NEW t \in Seq(S), NEW u \in Seq(S),
           Len(u) = Len(s) + Len(t),
           \A i \in 1 .. Len(u) : u[i] = IF i =< Len(s) THEN s[i] ELSE t[i - Len(s)]
    PROVE  s \o t = u
<1>1. s \o t \in Seq(S) /\ Len(s \o t) = Len(u)
  BY ConcatProperties
<1>2. \A i \in 1 .. Len(u) : (s \o t)[i] = u[i]
  BY ConcatProperties
<1> QED
  BY <1>1, <1>2, SeqEqual

\* The two kinds of job.
LEMMA JobShape ==
    /\ Save = <<Call("open", "events"), Call("write", "events"), Call("close", "events")>>
    /\ Flush = <<Call("open", "telemetry"), Call("open", "sensor"), Call("write", "telemetry"),
                 Call("write", "sensor"), Call("close", "telemetry"), Call("close", "sensor")>>
<1>1. ASSUME NEW f, NEW a PROVE All(f, <<a>>) = <<Call(f, a)>>
  BY DEF All
<1>2. ASSUME NEW f, NEW a, NEW b PROVE All(f, <<a, b>>) = <<Call(f, a), Call(f, b)>>
  BY DEF All
<1>3. Save = (<<Call("open", "events")>> \o <<Call("write", "events")>>) \o <<Call("close", "events")>>
  BY <1>1 DEF Save, Job
<1>4. Flush = (<<Call("open", "telemetry"), Call("open", "sensor")>>
                 \o <<Call("write", "telemetry"), Call("write", "sensor")>>)
              \o <<Call("close", "telemetry"), Call("close", "sensor")>>
  BY <1>2 DEF Flush, Job
<1>5. ASSUME NEW a \in Calls, NEW b \in Calls
      PROVE  <<a>> \o <<b>> = <<a, b>>
  <2> DEFINE s == <<a>>
             t == <<b>>
             u == <<a, b>>
  <2>1. s \in Seq(Calls) /\ t \in Seq(Calls) /\ u \in Seq(Calls)
    OBVIOUS
  <2>2. Len(s) = 1 /\ Len(t) = 1 /\ Len(u) = 2
    OBVIOUS
  <2>3. \A i \in 1 .. 2 : u[i] = IF i =< 1 THEN s[i] ELSE t[i - 1]
    OBVIOUS
  <2> HIDE DEF s, t, u
  <2>4. /\ Len(u) = Len(s) + Len(t)
        /\ \A i \in 1 .. Len(u) : u[i] = IF i =< Len(s) THEN s[i] ELSE t[i - Len(s)]
    BY <2>2, <2>3
  <2>5. s \o t = u
    BY <2>1, <2>4, JoinIs
  <2> QED
    BY <2>5 DEF s, t, u
<1>6. ASSUME NEW a \in Calls, NEW b \in Calls, NEW d \in Calls
      PROVE  <<a, b>> \o <<d>> = <<a, b, d>>
  <2> DEFINE s == <<a, b>>
             t == <<d>>
             u == <<a, b, d>>
  <2>1. s \in Seq(Calls) /\ t \in Seq(Calls) /\ u \in Seq(Calls)
    OBVIOUS
  <2>2. Len(s) = 2 /\ Len(t) = 1 /\ Len(u) = 3
    OBVIOUS
  <2>3. \A i \in 1 .. 3 : u[i] = IF i =< 2 THEN s[i] ELSE t[i - 2]
    OBVIOUS
  <2> HIDE DEF s, t, u
  <2>4. /\ Len(u) = Len(s) + Len(t)
        /\ \A i \in 1 .. Len(u) : u[i] = IF i =< Len(s) THEN s[i] ELSE t[i - Len(s)]
    BY <2>2, <2>3
  <2>5. s \o t = u
    BY <2>1, <2>4, JoinIs
  <2> QED
    BY <2>5 DEF s, t, u
<1>7. ASSUME NEW a \in Calls, NEW b \in Calls, NEW d \in Calls, NEW e \in Calls
      PROVE  <<a, b>> \o <<d, e>> = <<a, b, d, e>>
  <2> DEFINE s == <<a, b>>
             t == <<d, e>>
             u == <<a, b, d, e>>
  <2>1. s \in Seq(Calls) /\ t \in Seq(Calls) /\ u \in Seq(Calls)
    OBVIOUS
  <2>2. Len(s) = 2 /\ Len(t) = 2 /\ Len(u) = 4
    OBVIOUS
  <2>3. \A i \in 1 .. 4 : u[i] = IF i =< 2 THEN s[i] ELSE t[i - 2]
    OBVIOUS
  <2> HIDE DEF s, t, u
  <2>4. /\ Len(u) = Len(s) + Len(t)
        /\ \A i \in 1 .. Len(u) : u[i] = IF i =< Len(s) THEN s[i] ELSE t[i - Len(s)]
    BY <2>2, <2>3
  <2>5. s \o t = u
    BY <2>1, <2>4, JoinIs
  <2> QED
    BY <2>5 DEF s, t, u
<1>8. ASSUME NEW a \in Calls, NEW b \in Calls, NEW d \in Calls, NEW e \in Calls,
             NEW f \in Calls, NEW g \in Calls
      PROVE  <<a, b, d, e>> \o <<f, g>> = <<a, b, d, e, f, g>>
  <2> DEFINE s == <<a, b, d, e>>
             t == <<f, g>>
             u == <<a, b, d, e, f, g>>
  <2>1. s \in Seq(Calls) /\ t \in Seq(Calls) /\ u \in Seq(Calls)
    OBVIOUS
  <2>2. Len(s) = 4 /\ Len(t) = 2 /\ Len(u) = 6
    OBVIOUS
  <2>3. \A i \in 1 .. 6 : u[i] = IF i =< 4 THEN s[i] ELSE t[i - 4]
    OBVIOUS
  <2> HIDE DEF s, t, u
  <2>4. /\ Len(u) = Len(s) + Len(t)
        /\ \A i \in 1 .. Len(u) : u[i] = IF i =< Len(s) THEN s[i] ELSE t[i - Len(s)]
    BY <2>2, <2>3
  <2>5. s \o t = u
    BY <2>1, <2>4, JoinIs
  <2> QED
    BY <2>5 DEF s, t, u
<1>9. \A f \in Functions, n \in Names : Call(f, n) \in Calls
  BY DEF Call, Calls
<1>10. {"open", "write", "close"} \subseteq Functions /\ {"events", "telemetry", "sensor"} \subseteq Names
  BY DEF Functions, Names
<1>11. Save = <<Call("open", "events"), Call("write", "events"), Call("close", "events")>>
  <2>1. /\ Call("open", "events") \in Calls /\ Call("write", "events") \in Calls
        /\ Call("close", "events") \in Calls
    BY <1>9, <1>10
  <2> QED
    BY <1>3, <1>5, <1>6, <2>1
<1>12. /\ Call("open", "telemetry") \in Calls /\ Call("open", "sensor") \in Calls
       /\ Call("write", "telemetry") \in Calls /\ Call("write", "sensor") \in Calls
       /\ Call("close", "telemetry") \in Calls /\ Call("close", "sensor") \in Calls
  BY <1>9, <1>10
<1>13. <<Call("open", "telemetry"), Call("open", "sensor")>>
         \o <<Call("write", "telemetry"), Call("write", "sensor")>>
       = <<Call("open", "telemetry"), Call("open", "sensor"), Call("write", "telemetry"),
           Call("write", "sensor")>>
  BY <1>7, <1>12
<1>14. <<Call("open", "telemetry"), Call("open", "sensor"), Call("write", "telemetry"),
           Call("write", "sensor")>> \o <<Call("close", "telemetry"), Call("close", "sensor")>>
       = <<Call("open", "telemetry"), Call("open", "sensor"), Call("write", "telemetry"),
           Call("write", "sensor"), Call("close", "telemetry"), Call("close", "sensor")>>
  BY <1>8, <1>12
<1> QED
  BY <1>4, <1>11, <1>13, <1>14

\* A job has no call twice, and closes after each open.
LEMMA JobsOrdered ==
    ASSUME NEW j \in {Save, Flush}
    PROVE  j \in Seq(Calls) /\ j # <<>> /\ Ordered(j)
<1>1. CASE j = Save
  <2>1. j = <<Call("open", "events"), Call("write", "events"), Call("close", "events")>>
    BY <1>1, JobShape
  <2>2. Len(j) = 3 /\ 1 .. 3 = {1, 2, 3}
    BY <2>1
  <2> QED
    BY <2>1, <2>2 DEF Call, Calls, Functions, Names, Ordered
<1>2. CASE j = Flush
  <2>1. j = <<Call("open", "telemetry"), Call("open", "sensor"), Call("write", "telemetry"),
              Call("write", "sensor"), Call("close", "telemetry"), Call("close", "sensor")>>
    BY <1>2, JobShape
  <2>2. Len(j) = 6 /\ 1 .. 6 = {1, 2, 3, 4, 5, 6}
    BY <2>1
  <2>3. \A i \in 1 .. 6 : j[i] \in Calls
    BY <2>1, <2>2 DEF Call, Calls, Functions, Names
  <2>4. j \in Seq(Calls) /\ j # <<>>
    BY <2>1 DEF Call, Calls, Functions, Names
  <2>5. \A i, k \in 1 .. 6 : j[i] = j[k] => i = k
    BY <2>1, <2>2 DEF Call
  <2>6. \A i \in 1 .. 6 : j[i].function = "open" => i \in {1, 2}
    BY <2>1, <2>2 DEF Call
  <2>7. j[5] = Call("close", j[1].name) /\ j[6] = Call("close", j[2].name)
    BY <2>1 DEF Call
  <2> QED
    BY <2>2, <2>4, <2>5, <2>6, <2>7 DEF Ordered
<1> QED
  BY <1>1, <1>2

-----------------------------------------------------------------------------
(* What is still to be done.                                               *)

\* What is left of an ordered job is ordered.
LEMMA TailOrder ==
    ASSUME TypesOK, OrderOK, NEW c \in Cores, todo[c] # <<>>,
           todo' = [todo EXCEPT ![c] = Tail(@)]
    PROVE  /\ todo' \in [Cores -> Seq(Calls)] /\ OrderOK'
           /\ \A d \in Cores \ {c} : todo'[d] = todo[d]
           /\ Len(todo'[c]) = Len(todo[c]) - 1 /\ Len(todo[c]) \in Nat \ {0}
           /\ \A i \in 1 .. Len(todo'[c]) : todo'[c][i] = todo[c][i + 1]
           /\ Head(todo[c]) = todo[c][1] /\ Head(todo[c]) \in Calls
<1>1. todo \in [Cores -> Seq(Calls)] /\ todo[c] \in Seq(Calls)
  BY DEF TypesOK
<1>2. todo'[c] = Tail(todo[c]) /\ \A d \in Cores \ {c} : todo'[d] = todo[d]
  BY <1>1
<1>3. /\ Tail(todo[c]) \in Seq(Calls) /\ Len(Tail(todo[c])) = Len(todo[c]) - 1
      /\ \A i \in 1 .. Len(Tail(todo[c])) : Tail(todo[c])[i] = todo[c][i + 1]
      /\ Head(todo[c]) \in Calls
  BY <1>1, HeadTailProperties
<1>4. Len(todo[c]) \in Nat \ {0} /\ Head(todo[c]) = todo[c][1]
  BY <1>1
<1>5. todo' \in [Cores -> Seq(Calls)]
  BY <1>1, <1>3
<1>6. PICK l : l = Len(todo[c])
  OBVIOUS
<1>7. l \in Nat \ {0} /\ Len(todo'[c]) = l - 1 /\ \A i \in 1 .. (l - 1) : todo'[c][i] = todo[c][i + 1]
  BY <1>2, <1>3, <1>4, <1>6
<1>8. OrderOK'
  <2>1. Ordered(todo'[c])
    <3>1. \A i \in 1 .. (l - 1) : i + 1 \in 1 .. l
      BY <1>7
    <3>2. \A i, j \in 1 .. (l - 1) : todo'[c][i] = todo'[c][j] => i = j
      BY <1>6, <1>7, <3>1 DEF OrderOK, Ordered
    <3>3. ASSUME NEW i \in 1 .. (l - 1), todo'[c][i].function = "open"
          PROVE  \E j \in i + 1 .. (l - 1) : todo'[c][j] = Call("close", todo'[c][i].name)
      <4>1. i + 1 \in 1 .. l /\ todo[c][i + 1] = todo'[c][i]
        BY <1>7, <3>1
      <4>2. PICK k \in (i + 1) + 1 .. l : todo[c][k] = Call("close", todo[c][i + 1].name)
        BY <1>6, <3>3, <4>1 DEF OrderOK, Ordered
      <4>3. k - 1 \in i + 1 .. (l - 1) /\ k - 1 \in 1 .. (l - 1) /\ (k - 1) + 1 = k
        BY <1>7
      <4>4. todo'[c][k - 1] = todo[c][k]
        BY <1>7, <4>3
      <4> QED
        BY <4>1, <4>2, <4>3, <4>4
    <3>4. Len(todo'[c]) = l - 1
      BY <1>7
    <3>5. \A i, j \in 1 .. Len(todo'[c]) : todo'[c][i] = todo'[c][j] => i = j
      BY <3>2, <3>4
    <3>6. \A i \in 1 .. Len(todo'[c]) : todo'[c][i].function = "open" =>
            \E j \in i + 1 .. Len(todo'[c]) : todo'[c][j] = Call("close", todo'[c][i].name)
      BY <3>3, <3>4
    <3> QED
      BY <3>5, <3>6 DEF Ordered
  <2>2. \A d \in Cores \ {c} : Ordered(todo'[d])
    BY <1>2 DEF OrderOK
  <2> QED
    BY <2>1, <2>2 DEF OrderOK
<1> QED
  BY <1>2, <1>3, <1>4, <1>5, <1>8

\* What stays open after a call is what was open before, but for what the call has
\* closed, and what it has opened.
LEMMA TailPaired ==
    ASSUME TypesOK, OrderOK, PairedOK, NEW c \in Cores, todo[c] # <<>>,
           todo' = [todo EXCEPT ![c] = Tail(@)],
           \A d \in Cores \ {c} : fd'[d] = fd[d],
           \A n \in Names : fd'[c][n] # None =>
               \/ fd[c][n] # None /\ Head(todo[c]) # Call("close", n)
               \/ Head(todo[c]) = Call("open", n)
    PROVE  PairedOK'
<1>1. /\ \A d \in Cores \ {c} : todo'[d] = todo[d]
      /\ Len(todo'[c]) = Len(todo[c]) - 1 /\ Len(todo[c]) \in Nat \ {0}
      /\ \A i \in 1 .. Len(todo'[c]) : todo'[c][i] = todo[c][i + 1]
      /\ Head(todo[c]) = todo[c][1]
  BY TailOrder
<1> SUFFICES ASSUME NEW d \in Cores, NEW n \in Names, fd'[d][n] # None
             PROVE  /\ \E i \in 1 .. Len(todo'[d]) : todo'[d][i] = Call("close", n)
                    /\ \A i \in 1 .. Len(todo'[d]) : todo'[d][i] # Call("open", n)
  BY DEF PairedOK, Call, None
<1>2. CASE d # c
  BY <1>1, <1>2 DEF PairedOK
<1>3. CASE d = c /\ fd[c][n] # None /\ Head(todo[c]) # Call("close", n)
  <2>1. PICK k \in 1 .. Len(todo[c]) : todo[c][k] = Call("close", n)
    BY <1>3 DEF PairedOK
  <2>2. k - 1 \in 1 .. Len(todo'[c]) /\ todo'[c][k - 1] = todo[c][k]
    BY <1>1, <1>3, <2>1
  <2>3. \A i \in 1 .. Len(todo'[c]) : i + 1 \in 1 .. Len(todo[c])
    BY <1>1
  <2>4. \A i \in 1 .. Len(todo[c]) : todo[c][i] # Call("open", n)
    BY <1>3 DEF PairedOK
  <2>5. \A i \in 1 .. Len(todo'[c]) : todo'[c][i] # Call("open", n)
    BY <1>1, <2>3, <2>4
  <2>6. todo'[c][k - 1] = Call("close", n)
    BY <2>1, <2>2
  <2> QED
    BY <1>3, <2>2, <2>5, <2>6
<1>4. CASE d = c /\ Head(todo[c]) = Call("open", n)
  <2>1. todo[c][1] = Call("open", n) /\ todo[c][1].function = "open" /\ todo[c][1].name = n
    BY <1>1, <1>4 DEF Call
  <2>2. 1 \in 1 .. Len(todo[c])
    BY <1>1
  <2>3. PICK k \in 1 + 1 .. Len(todo[c]) : todo[c][k] = Call("close", todo[c][1].name)
    BY <2>1, <2>2 DEF OrderOK, Ordered
  <2>4. k - 1 \in 1 .. Len(todo'[c]) /\ todo'[c][k - 1] = Call("close", n)
    BY <1>1, <2>1, <2>3
  <2>5. \A i \in 1 .. Len(todo'[c]) : todo'[c][i] # Call("open", n)
    <3>1. \A i \in 1 .. Len(todo'[c]) : i + 1 \in 1 .. Len(todo[c]) /\ i + 1 # 1
      BY <1>1
    <3> QED
      BY <1>1, <2>1, <2>2, <3>1 DEF OrderOK, Ordered
  <2> QED
    BY <1>4, <2>4, <2>5
<1> QED
  BY <1>2, <1>3, <1>4

\* A core alone is in each function.
LEMMA Exclusion ==
    ASSUME FileInv, NEW c \in Cores, NEW d \in Cores, c # d
    PROVE  /\ pc[c] \in Opening => pc[d] \notin Opening
           /\ pc[c] \in Closing => pc[d] \notin Closing
<1>1. PlaceOK /\ LockOK
  BY DEF FileInv
<1>2. ASSUME pc[c] \notin {"next", "fs_write"}, pc[d] \notin {"next", "fs_write"}
      PROVE  Head(todo[c]).function # Head(todo[d]).function
  BY <1>1, <1>2 DEF LockOK
<1>3. pc[c] \in Opening /\ pc[d] \in Opening =>
          /\ Head(todo[c]).function = "open" /\ Head(todo[d]).function = "open"
          /\ pc[c] \notin {"next", "fs_write"} /\ pc[d] \notin {"next", "fs_write"}
  BY <1>1 DEF PlaceOK, Opening
<1>4. pc[c] \in Closing /\ pc[d] \in Closing =>
          /\ Head(todo[c]).function = "close" /\ Head(todo[d]).function = "close"
          /\ pc[c] \notin {"next", "fs_write"} /\ pc[d] \notin {"next", "fs_write"}
  BY <1>1 DEF PlaceOK, Opening, Writing, Closing
<1> QED
  BY <1>2, <1>3, <1>4

\* The files with a context while c opens one are all but that one.
LEMMA PendingIs ==
    ASSUME FileInv, NEW c \in Cores, pc[c] \in {"fs_open", "undo"}
    PROVE  Pending = {file[c]}
<1>1. \A d \in Cores \ {c} : pc[d] \notin {"fs_open", "undo"}
  BY Exclusion DEF Opening
<1> QED
  BY <1>1 DEF Pending

\* While nobody waits for f_open, or has had it fail, every file has a context.
LEMMA NonePending ==
    ASSUME \A c \in Cores : pc[c] \notin {"fs_open", "undo"}
    PROVE  Pending = {}
BY DEF Pending

\* The files with a context can be counted.
LEMMA ContextsFinite == IsFiniteSet(WithContext) /\ Cardinality(WithContext) \in Nat
<1>1. WithContext \in SUBSET Nat /\ \A o \in WithContext : o <= 6
  BY DEF WithContext
<1>2. IsFiniteSet(WithContext)
  BY <1>1, FS_BoundedSetOfNaturals
<1> QED
  BY <1>2, FS_CardinalityType

\* What is open and what is being opened is the same as before when a step does not
\* touch the table, the descriptors or the files, and no core in between of an open.
LEMMA OpensKept ==
    ASSUME FileInv, UNCHANGED <<fd, table, objects, contexts, fails>>,
           \A d \in Cores :
               /\ pc'[d] \in {"fs_open", "done", "undo"} => pc'[d] = pc[d]
               /\ pc[d] \in {"fs_open", "done", "undo"} =>
                      pc'[d] = pc[d] /\ todo'[d] = todo[d] /\ file'[d] = file[d]
               /\ pc[d] = "clear_fs" => pc'[d] = "clear_fs" /\ at'[d] = at[d]
    PROVE  OwnOK' /\ ReachedOK' /\ SlotsReturn' /\ CountOK'
<1>1. OwnOK /\ ReachedOK /\ SlotsReturn /\ CountOK
  BY DEF FileInv
<1>2. UNCHANGED <<fd, table, objects, contexts, fails>>
  OBVIOUS
<1>3. OwnOK'
  <2> SUFFICES ASSUME NEW c \in Cores, NEW n \in Names, fd'[c][n] # None
               PROVE  /\ fd'[c][n] \in 1 .. Len(table') /\ table'[fd'[c][n]].filesystem
                      /\ table'[fd'[c][n]].file \in 1 .. 6 /\ objects'[table'[fd'[c][n]].file] = <<c, n>>
    BY DEF OwnOK, Own, None
  <2>1. fd[c][n] # None =>
            /\ fd[c][n] \in 1 .. Len(table) /\ table[fd[c][n]].filesystem
            /\ table[fd[c][n]].file \in 1 .. 6 /\ objects[table[fd[c][n]].file] = <<c, n>>
    BY <1>1 DEF OwnOK, Own
  <2> QED
    BY <1>2, <2>1
<1>4. ReachedOK'
  <2> SUFFICES ASSUME NEW o \in 1 .. 6, NEW c \in Cores, NEW n \in Names, objects'[o] = <<c, n>>
               PROVE  \/ fd'[c][n] # None /\ table'[fd'[c][n]].file = o
                      \/ pc'[c] \in {"fs_open", "done", "undo"} /\ Head(todo'[c]).name = n /\ file'[c] = o
    BY DEF ReachedOK, Reached, Name, None
  <2>1. \/ fd[c][n] # None /\ table[fd[c][n]].file = o
        \/ pc[c] \in {"fs_open", "done", "undo"} /\ Head(todo[c]).name = n /\ file[c] = o
    BY <1>1, <1>2 DEF ReachedOK, Reached, Name
  <2> QED
    BY <1>2, <2>1
<1>5. SlotsReturn'
  <2> SUFFICES ASSUME NEW i \in DOMAIN table', table'[i].filesystem
               PROVE  \E c \in Cores : (\E n \in Names : fd'[c][n] = i) \/ (pc'[c] = "clear_fs" /\ at'[c] = i)
    BY DEF SlotsReturn, Vacant, At
  <2>1. PICK c \in Cores : (\E n \in Names : fd[c][n] = i) \/ (pc[c] = "clear_fs" /\ at[c] = i)
    BY <1>1, <1>2 DEF SlotsReturn, Vacant, At
  <2> QED
    BY <1>2, <2>1
<1>6. CountOK'
  <2>1. \A d \in Cores : (pc'[d] \in {"fs_open", "undo"} <=> pc[d] \in {"fs_open", "undo"})
                         /\ (pc[d] \in {"fs_open", "undo"} => file'[d] = file[d])
    OBVIOUS
  <2>2. Pending' = Pending
    BY <2>1 DEF Pending
  <2> QED
    BY <1>1, <1>2, <2>2 DEF CountOK, WithContext
<1> QED
  BY <1>3, <1>4, <1>5, <1>6

\* What a store to one field of a slot does.
LEMMA StoredFile ==
    ASSUME NEW slots \in Seq(Slots), NEW i \in 1 .. Len(slots), NEW f \in Contexts,
           NEW t, t = [slots EXCEPT ![i].file = f]
    PROVE  /\ t \in Seq(Slots) /\ Len(t) = Len(slots)
           /\ t[i].filesystem = slots[i].filesystem /\ t[i].file = f
           /\ \A k \in 1 .. Len(slots) : k # i => t[k] = slots[k]
<1>1. PICK s : s = [slots[i] EXCEPT !.file = f]
  OBVIOUS
<1>2. s \in Slots /\ s.file = f /\ s.filesystem = slots[i].filesystem
  <2>1. slots[i] \in Slots
    OBVIOUS
  <2> QED
    BY <1>1, <2>1 DEF Slots
<1>3. t = [slots EXCEPT ![i] = s]
  BY <1>1
<1> QED
  BY <1>2, <1>3

\* The same for a whole slot.
LEMMA StoredSlot ==
    ASSUME NEW slots \in Seq(Slots), NEW i \in 1 .. Len(slots), NEW s \in Slots,
           NEW t, t = [slots EXCEPT ![i] = s]
    PROVE  /\ t \in Seq(Slots) /\ Len(t) = Len(slots) /\ t[i] = s
           /\ \A k \in 1 .. Len(slots) : k # i => t[k] = slots[k]
OBVIOUS

\* Who leaves a function leaves the others to their owners.
LEMMA ReturnLock ==
    ASSUME FileInv, NEW c \in Cores, pc[c] \notin {"next", "fs_write"},
           owner' = [owner EXCEPT ![Head(todo[c]).function] = Nobody], pc'[c] \in {"next", "fs_write"},
           \A d \in Cores \ {c} : pc'[d] = pc[d] /\ todo'[d] = todo[d]
    PROVE  LockOK'
<1>1. TypesOK /\ LockOK /\ PlaceOK
  BY DEF FileInv
<1>2. ASSUME NEW d \in Cores, pc'[d] \notin {"next", "fs_write"}
      PROVE  owner'[Head(todo'[d]).function] = d
  <2>1. d # c /\ pc[d] \notin {"next", "fs_write"} /\ todo'[d] = todo[d]
    BY <1>2
  <2>2. owner[Head(todo[d]).function] = d /\ owner[Head(todo[c]).function] = c
    BY <1>1, <2>1 DEF LockOK
  <2>3. todo[d] # <<>> /\ todo[d] \in Seq(Calls)
    BY <1>1, <2>1 DEF PlaceOK, TypesOK
  <2>4. Head(todo[d]) \in Calls
    BY <2>3, HeadTailProperties
  <2>5. Head(todo[d]).function \in Functions
    BY <2>4 DEF Calls
  <2>6. Head(todo[d]).function # Head(todo[c]).function
    BY <2>1, <2>2
  <2> QED
    BY <1>1, <2>1, <2>2, <2>5, <2>6 DEF TypesOK
<1> QED
  BY <1>2 DEF LockOK

\* What the other cores have in their hands while c takes a step.
LEMMA UseKept ==
    ASSUME FileInv, NEW c \in Cores, NEW d \in Cores, d # c,
           pc'[d] = pc[d] /\ todo'[d] = todo[d] /\ at'[d] = at[d] /\ file'[d] = file[d]
               /\ mine'[d] = mine[d] /\ fd'[d] = fd[d],
           pc[d] \in {"clear_fs", "clear_file"} =>
               /\ array' = array /\ Len(table') = Len(table)
               /\ table'[at[d]].filesystem = table[at[d]].filesystem,
           pc[d] \in {"written", "fs_write", "fs_close"} => table'[at[d]].file = table[at[d]].file,
           pc[d] = "clear_fs" => \A n \in Names : fd'[c][n] # at[d]
    PROVE  UseAt(d)'
<1>1. UseAt(d)
  BY DEF FileInv, UseOK
<1>2. Cores = {c, d}
  BY Places
<1>3. Name(d)' = Name(d)
  BY DEF Name
<1>4. pc[d] = "clear_fs" => \A e \in Cores, n \in Names : fd'[e][n] # at[d]
  BY <1>1, <1>2 DEF UseAt
<1>5. fd'[d] = fd[d] /\ pc'[d] = pc[d] /\ at'[d] = at[d] /\ file'[d] = file[d] /\ mine'[d] = mine[d]
  OBVIOUS
<1>6. pc[d] \in {"write", "written", "fs_write", "close", "fs_close"} => fd'[d][Name(d)'] # None
  BY <1>1, <1>3, <1>5 DEF UseAt
<1>7. pc[d] \in {"written", "fs_write", "fs_close"} =>
          at'[d] = fd'[d][Name(d)'] /\ file'[d] = table'[at'[d]].file
  BY <1>1, <1>3, <1>5 DEF UseAt
<1>8. pc[d] \in {"clear_fs", "clear_file"} =>
          at'[d] \in 1 .. Len(table') /\ mine'[d] = array' /\ fd'[d][Name(d)'] = None
  BY <1>1, <1>3, <1>5 DEF UseAt, InTable
<1> QED
  BY <1>1, <1>4, <1>5, <1>6, <1>7, <1>8 DEF UseAt, InTable

\* A core that is in a function has a call, of one of the files.
LEMMA NameOf ==
    ASSUME FileInv, NEW c \in Cores, pc[c] # "next"
    PROVE  todo[c] # <<>> /\ Head(todo[c]) \in Calls /\ Name(c) \in Names
<1>1. todo[c] # <<>> /\ todo[c] \in Seq(Calls)
  BY DEF FileInv, PlaceOK, TypesOK
<1>2. Head(todo[c]) \in Calls
  BY <1>1, HeadTailProperties
<1> QED
  BY <1>1, <1>2 DEF Calls, Name

\* The slot and the file that a write or a close has read.
LEMMA InUse ==
    ASSUME FileInv, NEW c \in Cores, pc[c] \in {"written", "fs_write", "fs_close"}
    PROVE  /\ at[c] = fd[c][Name(c)] /\ at[c] # None /\ at[c] \in 1 .. Len(table)
           /\ table[at[c]].filesystem /\ file[c] = table[at[c]].file
           /\ file[c] \in 1 .. 6 /\ objects[file[c]] = <<c, Name(c)>> /\ Name(c) \in Names
<1>1. UseAt(c) /\ Name(c) \in Names
  BY NameOf DEF FileInv, UseOK
<1>2. Own(c, Name(c))
  BY <1>1 DEF FileInv, OwnOK
<1> QED
  BY <1>1, <1>2 DEF UseAt, Own

\* A descriptor whose slot and file are left alone stays its owner's.
LEMMA OwnKept ==
    ASSUME FileInv, NEW c \in Cores, NEW n \in Names, fd'[c][n] = fd[c][n],
           fd[c][n] # None =>
               /\ fd[c][n] \in 1 .. Len(table') /\ table'[fd[c][n]] = table[fd[c][n]]
               /\ objects'[table[fd[c][n]].file] = objects[table[fd[c][n]].file]
    PROVE  Own(c, n)'
<1>1. Own(c, n)
  BY DEF FileInv, OwnOK
<1>2. PICK i : i = fd[c][n]
  OBVIOUS
<1>3. fd'[c][n] = i
  BY <1>2
<1> QED
  BY <1>1, <1>2, <1>3 DEF Own, None

\* A file stays reached while the descriptor that leads to it, or the open, is left alone.
LEMMA ReachedKept ==
    ASSUME FileInv, NEW o \in 1 .. 6, NEW c \in Cores, NEW n \in Names, objects'[o] = objects[o],
           fd[c][n] # None => fd'[c][n] = fd[c][n] /\ table'[fd[c][n]].file = table[fd[c][n]].file,
           pc[c] \in {"fs_open", "done", "undo"} =>
               pc'[c] \in {"fs_open", "done", "undo"} /\ file'[c] = file[c] /\ todo'[c] = todo[c]
    PROVE  Reached(o, c, n)'
<1>1. Reached(o, c, n)
  BY DEF FileInv, ReachedOK
<1>2. pc[c] \in {"fs_open", "done", "undo"} => Name(c)' = Name(c)
  BY DEF Name
<1> QED
  BY <1>1, <1>2 DEF Reached, None

\* Every slot in use stays its owner's.
LEMMA SlotsKept ==
    ASSUME FileInv, NEW i \in DOMAIN table, table[i].filesystem,
           \A c \in Cores, n \in Names : fd[c][n] = i => fd'[c][n] = i,
           \A c \in Cores : pc[c] = "clear_fs" /\ at[c] = i => pc'[c] = "clear_fs" /\ at'[c] = i
    PROVE  \E c \in Cores : (\E n \in Names : fd'[c][n] = i) \/ (pc'[c] = "clear_fs" /\ at'[c] = i)
<1>1. PICK c \in Cores : (\E n \in Names : fd[c][n] = i) \/ (pc[c] = "clear_fs" /\ at[c] = i)
  BY DEF FileInv, SlotsReturn, Vacant, At
<1> QED
  BY <1>1

-----------------------------------------------------------------------------
(* The steps of a job, and of _write.                                      *)

\* A core that begins a job has no file open.
LEMMA BeginKeeps ==
    ASSUME FileInv, NEW c \in Cores, Begin(c), NobodyMeets'
    PROVE  FileInv'
<1>1. /\ TypesOK /\ OrderOK /\ PairedOK /\ PlaceOK /\ LockOK /\ OpenOK /\ GrowOK /\ UseOK
      /\ ApartOK /\ OwnOK /\ SlotsReturn /\ ReachedOK /\ CountOK
  BY DEF FileInv
<1>2. /\ pc[c] = "next" /\ todo[c] = <<>>
      /\ \E j \in {Save, Flush} : todo' = [todo EXCEPT ![c] = j]
      /\ UNCHANGED <<owner, pc, fd, at, file, mine, table, array, copy, objects, contexts, fails>>
  BY <1>1 DEF Begin, At, Jobs, memory
<1>3. PICK j \in {Save, Flush} : todo' = [todo EXCEPT ![c] = j]
  BY <1>2
<1>4. j \in Seq(Calls) /\ j # <<>> /\ Ordered(j)
  BY JobsOrdered
<1>5. todo'[c] = j /\ \A d \in Cores \ {c} : todo'[d] = todo[d]
  BY <1>1, <1>3 DEF TypesOK
<1>6. \A n \in Names : fd[c][n] = None
  BY <1>1, <1>2 DEF PairedOK
<1>10. TypesOK'
  BY <1>1, <1>2, <1>3, <1>4 DEF TypesOK
<1>11. OrderOK'
  BY <1>1, <1>2, <1>4, <1>5, <1>6 DEF OrderOK
<1>12. PairedOK'
  BY <1>1, <1>2, <1>4, <1>5, <1>6 DEF PairedOK
<1>13. PlaceOK'
  BY <1>1, <1>2, <1>4, <1>5, <1>6 DEF PlaceOK, Opening, Writing
<1>14. LockOK'
  BY <1>1, <1>2, <1>4, <1>5, <1>6 DEF LockOK
<1>15. OpenOK'
  BY <1>1, <1>2, <1>4, <1>5, <1>6 DEF OpenOK, OpenAt, InTable, Name
<1>16. GrowOK'
  BY <1>1, <1>2, <1>4, <1>5, <1>6 DEF GrowOK
<1>17. UseOK'
  BY <1>1, <1>2, <1>4, <1>5, <1>6 DEF UseOK, UseAt, InTable, Name
<1>18. ApartOK'
  BY <1>1, <1>2, <1>4, <1>5, <1>6 DEF ApartOK
<1>19. OwnOK'
  BY <1>1, <1>2, <1>4, <1>5, <1>6 DEF OwnOK, Own, None
<1>20. SlotsReturn'
  BY <1>1, <1>2, <1>4, <1>5, <1>6 DEF SlotsReturn, Vacant, At, None
<1>21. ReachedOK'
  BY <1>1, <1>2, <1>4, <1>5, <1>6 DEF ReachedOK, Reached, Name
<1>22. CountOK'
  BY <1>1, <1>2, <1>4, <1>5, <1>6 DEF CountOK, WithContext, Pending
<1> QED
  BY <1>10, <1>11, <1>12, <1>13, <1>14, <1>15, <1>16, <1>17, <1>18, <1>19, <1>20, <1>21,
     <1>22 DEF FileInv

\* A call that is not due is dropped: a close of what is not open, a write of half a pair.
LEMMA SkipKeeps ==
    ASSUME FileInv, NEW c \in Cores, Skip(c), NobodyMeets'
    PROVE  FileInv'
<1>1. /\ TypesOK /\ OrderOK /\ PairedOK /\ PlaceOK /\ LockOK /\ OpenOK /\ GrowOK /\ UseOK
      /\ ApartOK /\ OwnOK /\ SlotsReturn /\ ReachedOK /\ CountOK
  BY DEF FileInv
<1>2. /\ pc[c] = "next" /\ todo[c] # <<>>
      /\ Head(todo[c]).function # "open"
      /\ Head(todo[c]).function = "close" => fd[c][Head(todo[c]).name] = None
      /\ todo' = [todo EXCEPT ![c] = Tail(@)]
      /\ UNCHANGED <<owner, pc, fd, at, file, mine, table, array, copy, objects, contexts, fails>>
  BY <1>1 DEF Skip, At, Due, memory
<1>3. todo' \in [Cores -> Seq(Calls)] /\ OrderOK' /\ \A d \in Cores \ {c} : todo'[d] = todo[d]
  BY <1>1, <1>2, TailOrder
<1>10. TypesOK'
  BY <1>1, <1>2, <1>3 DEF TypesOK
<1>11. OrderOK'
  BY <1>3
<1>12. PairedOK'
  <2>1. \A n \in Names : fd'[c][n] # None => fd[c][n] # None /\ Head(todo[c]) # Call("close", n)
    BY <1>2 DEF Call
  <2> QED
    BY <1>1, <1>2, <2>1, TailPaired
<1>13. PlaceOK'
  BY <1>1, <1>2, <1>3 DEF PlaceOK, Opening, Writing
<1>14. LockOK'
  BY <1>1, <1>2, <1>3 DEF LockOK
<1>15. OpenOK'
  BY <1>1, <1>2, <1>3 DEF OpenOK, OpenAt, InTable, Name
<1>16. GrowOK'
  BY <1>1, <1>2, <1>3 DEF GrowOK
<1>17. UseOK'
  BY <1>1, <1>2, <1>3 DEF UseOK, UseAt, InTable, Name
<1>18. ApartOK'
  BY <1>1, <1>2, <1>3 DEF ApartOK
<1>19. OwnOK'
  BY <1>1, <1>2, <1>3 DEF OwnOK, Own, None
<1>20. SlotsReturn'
  BY <1>1, <1>2, <1>3 DEF SlotsReturn, Vacant, At, None
<1>21. ReachedOK'
  <2>1. \A d \in Cores : pc[d] \in {"fs_open", "done", "undo"} => Name(d)' = Name(d)
    BY <1>2, <1>3 DEF Name
  <2> QED
    BY <1>1, <1>2, <2>1 DEF ReachedOK, Reached
<1>22. CountOK'
  BY <1>1, <1>2, <1>3 DEF CountOK, WithContext, Pending
<1> QED
  BY <1>10, <1>11, <1>12, <1>13, <1>14, <1>15, <1>16, <1>17, <1>18, <1>19, <1>20, <1>21,
     <1>22 DEF FileInv

\* A core takes the mutex of the function it calls.
LEMMA EnterKeeps ==
    ASSUME FileInv, NEW c \in Cores, Enter(c), NobodyMeets'
    PROVE  FileInv'
<1>1. /\ TypesOK /\ OrderOK /\ PairedOK /\ PlaceOK /\ LockOK /\ OpenOK /\ GrowOK /\ UseOK
      /\ ApartOK /\ OwnOK /\ SlotsReturn /\ ReachedOK /\ CountOK
  BY DEF FileInv
<1>2. /\ pc[c] = "next" /\ todo[c] # <<>>
      /\ owner[Head(todo[c]).function] \in {Nobody, c}
      /\ owner' = [owner EXCEPT ![Head(todo[c]).function] = c]
      /\ pc' = [pc EXCEPT ![c] = Head(todo[c]).function]
      /\ Due(c)
      /\ UNCHANGED <<todo, fd, at, file, mine, table, array, copy, objects, contexts, fails>>
  BY <1>1 DEF Enter, At, Go, memory
<1>3. Head(todo[c]) \in Calls
  BY <1>1, <1>2, HeadTailProperties DEF TypesOK
<1>4. /\ pc'[c] = Head(todo[c]).function /\ \A d \in Cores \ {c} : pc'[d] = pc[d]
      /\ Head(todo[c]).function \in {"open", "write", "close"}
  BY <1>1, <1>2, <1>3 DEF TypesOK, Calls, Functions
<1>5. Head(todo[c]).function # "open" => fd[c][Head(todo[c]).name] # None
  <2>1. Len(todo[c]) \in Nat \ {0} /\ Head(todo[c]) = todo[c][1]
    BY <1>1, <1>2 DEF TypesOK
  <2>2. Head(todo[c]).name \in Files(c)
    BY <2>1 DEF Files
  <2> QED
    BY <1>2, <1>4, <2>2 DEF Due
<1>6. Pending' = Pending
  BY <1>2, <1>4 DEF Pending
<1>10. TypesOK'
  BY <1>1, <1>2, <1>3, <1>4, <1>5, Places DEF TypesOK, Contexts, Slots, Opening, Writing, Closing
<1>11. OrderOK'
  BY <1>1, <1>2, <1>3, <1>4, <1>5, Places DEF OrderOK
<1>12. PairedOK'
  BY <1>1, <1>2, <1>3, <1>4, <1>5, Places DEF PairedOK
<1>13. PlaceOK'
  BY <1>1, <1>2, <1>3, <1>4, <1>5, Places DEF PlaceOK, Opening, Writing
<1>14. LockOK'
  <2>1. \A d \in Cores \ {c} : pc[d] \notin {"next", "fs_write"} =>
            Head(todo[d]).function # Head(todo[c]).function
    BY <1>1, <1>2, Places DEF LockOK
  <2>2. \A d \in Cores \ {c} : pc[d] \notin {"next", "fs_write"} =>
            owner'[Head(todo[d]).function] = d
    BY <1>1, <1>2, <2>1 DEF LockOK, TypesOK
  <2>3. owner'[Head(todo[c]).function] = c
    BY <1>1, <1>2, <1>3 DEF TypesOK, Calls
  <2> QED
    BY <1>2, <1>4, <2>2, <2>3 DEF LockOK
<1>15. OpenOK'
  BY <1>1, <1>2, <1>3, <1>4, <1>5, Places DEF OpenOK, OpenAt, InTable, Name
<1>16. GrowOK'
  BY <1>1, <1>2, <1>3, <1>4, <1>5, Places DEF GrowOK
<1>17. UseOK'
  BY <1>1, <1>2, <1>3, <1>4, <1>5, Places DEF UseOK, UseAt, InTable, Name
<1>18. ApartOK'
  BY <1>1, <1>2, <1>3, <1>4, <1>5, Places DEF ApartOK
<1>19. OwnOK'
  BY <1>1, <1>2, <1>3, <1>4, <1>5, Places DEF OwnOK, Own, None
<1>20. SlotsReturn'
  BY <1>1, <1>2, <1>3, <1>4, <1>5, Places DEF SlotsReturn, Vacant, At, None
<1>21. ReachedOK'
  BY <1>1, <1>2, <1>3, <1>4, <1>5, Places DEF ReachedOK, Reached, Name
<1>22. CountOK'
  BY <1>1, <1>2, <1>6 DEF CountOK, WithContext
<1> QED
  BY <1>10, <1>11, <1>12, <1>13, <1>14, <1>15, <1>16, <1>17, <1>18, <1>19, <1>20, <1>21,
     <1>22 DEF FileInv

\* _write gives its mutex back, and keeps in hand what it has read.
LEMMA UnlockKeeps ==
    ASSUME FileInv, NEW c \in Cores, Unlock(c), NobodyMeets'
    PROVE  FileInv'
<1>1. /\ TypesOK /\ OrderOK /\ PairedOK /\ PlaceOK /\ LockOK /\ OpenOK /\ GrowOK /\ UseOK
      /\ ApartOK /\ OwnOK /\ SlotsReturn /\ ReachedOK /\ CountOK
  BY DEF FileInv
<1>2. /\ pc[c] = "written"
      /\ owner' = [owner EXCEPT ![Head(todo[c]).function] = Nobody]
      /\ pc' = [pc EXCEPT ![c] = "fs_write"]
      /\ UNCHANGED <<todo, fd, at, file, mine, table, array, copy, objects, contexts, fails>>
  BY <1>1 DEF Unlock, At, Go, Exit, memory
<1>3. pc'[c] = "fs_write" /\ \A d \in Cores \ {c} : pc'[d] = pc[d]
  BY <1>1, <1>2 DEF TypesOK
<1>10. TypesOK'
  BY <1>1, <1>2, <1>3, Places DEF TypesOK, Contexts, Slots, Opening, Writing, Closing
<1>11. OrderOK'
  BY <1>1, <1>2, <1>3, Places DEF OrderOK
<1>12. PairedOK'
  BY <1>1, <1>2, <1>3, Places DEF PairedOK
<1>13. PlaceOK'
  BY <1>1, <1>2, <1>3, Places DEF PlaceOK, Opening, Writing
<1>14. LockOK'
  BY <1>1, <1>2, <1>3, Places DEF LockOK
<1>15. OpenOK'
  BY <1>1, <1>2, <1>3, Places DEF OpenOK, OpenAt, InTable, Name
<1>16. GrowOK'
  BY <1>1, <1>2, <1>3, Places DEF GrowOK
<1>17. UseOK'
  BY <1>1, <1>2, <1>3, Places DEF UseOK, UseAt, InTable, Name
<1>18. ApartOK'
  BY <1>1, <1>2, <1>3, Places DEF ApartOK
<1>19. OwnOK'
  BY <1>1, <1>2, <1>3, Places DEF OwnOK, Own, None
<1>20. SlotsReturn'
  BY <1>1, <1>2, <1>3, Places DEF SlotsReturn, Vacant, At, None
<1>21. ReachedOK'
  BY <1>1, <1>2, <1>3, Places DEF ReachedOK, Reached, Name
<1>22. CountOK'
  BY <1>1, <1>2, <1>3, Places DEF CountOK, WithContext, Pending
<1> QED
  BY <1>10, <1>11, <1>12, <1>13, <1>14, <1>15, <1>16, <1>17, <1>18, <1>19, <1>20, <1>21,
     <1>22 DEF FileInv

\* f_write, after the mutex has been given back: the file is still the core's own.
LEMMA FileWriteKeeps ==
    ASSUME FileInv, NEW c \in Cores, FileWrite(c), NobodyMeets'
    PROVE  FileInv'
<1>1. /\ TypesOK /\ OrderOK /\ PairedOK /\ PlaceOK /\ LockOK /\ OpenOK /\ GrowOK /\ UseOK
      /\ ApartOK /\ OwnOK /\ SlotsReturn /\ ReachedOK /\ CountOK
  BY DEF FileInv
<1>2. /\ pc[c] = "fs_write"
      /\ pc' = [pc EXCEPT ![c] = "next"] /\ todo' = [todo EXCEPT ![c] = Tail(@)]
      /\ at' = [at EXCEPT ![c] = None] /\ file' = [file EXCEPT ![c] = None]
      /\ mine' = [mine EXCEPT ![c] = 0]
      /\ UNCHANGED <<owner, fd, table, array, copy, objects, contexts, fails>>
  BY <1>1 DEF FileWrite, Forget, At, Go, memory
<1>3. todo[c] # <<>>
  BY <1>1, <1>2 DEF PlaceOK
<1>4. todo' \in [Cores -> Seq(Calls)] /\ OrderOK' /\ Head(todo[c]) \in Calls
  BY <1>1, <1>2, <1>3, TailOrder
<1>5. /\ pc'[c] = "next"
      /\ \A d \in Cores \ {c} :
            /\ pc'[d] = pc[d] /\ todo'[d] = todo[d] /\ at'[d] = at[d] /\ file'[d] = file[d]
            /\ mine'[d] = mine[d]
  BY <1>1, <1>2 DEF TypesOK
<1>8. OwnOK' /\ ReachedOK' /\ SlotsReturn' /\ CountOK'
  <2>1. UNCHANGED <<fd, table, objects, contexts, fails>>
    BY <1>2
  <2>2. \A d \in Cores :
            /\ pc'[d] \in {"fs_open", "done", "undo"} => pc'[d] = pc[d]
            /\ pc[d] \in {"fs_open", "done", "undo"} =>
                   pc'[d] = pc[d] /\ todo'[d] = todo[d] /\ file'[d] = file[d]
            /\ pc[d] = "clear_fs" => pc'[d] = "clear_fs" /\ at'[d] = at[d]
    BY <1>2, <1>5
  <2> QED
    BY <2>1, <2>2, OpensKept
<1>10. TypesOK'
  BY <1>1, <1>2, <1>4 DEF TypesOK, Contexts, None
<1>11. OrderOK'
  BY <1>4
<1>12. PairedOK'
  <2>1. Head(todo[c]).function = "write"
    BY <1>1, <1>2 DEF PlaceOK, Opening, Writing
  <2>2. \A n \in Names : fd'[c][n] # None => fd[c][n] # None /\ Head(todo[c]) # Call("close", n)
    BY <1>2, <2>1 DEF Call
  <2> QED
    BY <1>1, <1>2, <1>3, <2>2, TailPaired
<1>13. PlaceOK'
  BY <1>1, <1>2, <1>4, <1>5, Places DEF PlaceOK, Opening, Writing
<1>14. LockOK'
  BY <1>1, <1>2, <1>4, <1>5, Places DEF LockOK
<1>15. OpenOK'
  BY <1>1, <1>2, <1>4, <1>5, Places DEF OpenOK, OpenAt, InTable, Name
<1>16. GrowOK'
  BY <1>1, <1>2, <1>4, <1>5, Places DEF GrowOK
<1>17. UseOK'
  <2>1. ASSUME NEW d \in Cores, d # c PROVE UseAt(d)'
    <3>1. /\ pc'[d] = pc[d] /\ todo'[d] = todo[d] /\ at'[d] = at[d] /\ file'[d] = file[d]
          /\ mine'[d] = mine[d] /\ fd'[d] = fd[d]
      BY <1>2, <1>5, <2>1
    <3>2. pc[d] \in {"clear_fs", "clear_file"} =>
            /\ array' = array /\ Len(table') = Len(table)
            /\ table'[at[d]].filesystem = table[at[d]].filesystem
      BY <1>1, <1>2, <1>5, <2>1 DEF UseOK, UseAt, InTable, ApartOK
    <3>3. pc[d] \in {"written", "fs_write", "fs_close"} => table'[at[d]].file = table[at[d]].file
      BY <1>1, <1>2, <1>5, <2>1 DEF UseOK, UseAt, OwnOK, Own, Name
    <3>4. pc[d] = "clear_fs" => \A n \in Names : fd'[c][n] # at[d]
      BY <1>1, <1>2, <1>5, <2>1 DEF UseOK, UseAt
    <3> QED
      BY <2>1, <3>1, <3>2, <3>3, <3>4, UseKept
  <2>2. UseAt(c)'
    BY <1>5 DEF UseAt
  <2> QED
    BY <2>1, <2>2 DEF UseOK
<1>18. ApartOK'
  BY <1>1, <1>2, <1>4, <1>5, Places DEF ApartOK
<1>19. OwnOK'
  BY <1>8
<1>20. SlotsReturn'
  BY <1>8
<1>21. ReachedOK'
  BY <1>8
<1>22. CountOK'
  BY <1>8
<1> QED
  BY <1>10, <1>11, <1>12, <1>13, <1>14, <1>15, <1>16, <1>17, <1>18, <1>19, <1>20, <1>21,
     <1>22 DEF FileInv

\* _write finds its descriptor in the table, with a file.
LEMMA WriteKeeps ==
    ASSUME FileInv, NEW c \in Cores, Write(c), NobodyMeets'
    PROVE  FileInv'
<1>1. /\ TypesOK /\ OrderOK /\ PairedOK /\ PlaceOK /\ LockOK /\ OpenOK /\ GrowOK /\ UseOK
      /\ ApartOK /\ OwnOK /\ SlotsReturn /\ ReachedOK /\ CountOK
  BY DEF FileInv
<1>2. /\ pc[c] = "write" /\ pc[c] = Head(todo[c]).function
      /\ at' = [at EXCEPT ![c] = fd[c][Name(c)]]
      /\ table[fd[c][Name(c)]].filesystem =>
            file' = [file EXCEPT ![c] = table[fd[c][Name(c)]].file] /\ pc' = [pc EXCEPT ![c] = "written"]
      /\ UNCHANGED <<owner, todo, fd, mine, table, array, copy, objects, contexts, fails>>
  BY <1>1 DEF Write, Lookup, At, Go, memory
<1>3. todo[c] # <<>>
  BY <1>1, <1>2 DEF PlaceOK
<1>4. Name(c) \in Names
  <2>1. Head(todo[c]) \in Calls
    BY <1>1, <1>3, HeadTailProperties DEF TypesOK
  <2> QED
    BY <2>1 DEF Calls, Name
<1>5. PICK i : i = fd[c][Name(c)]
  OBVIOUS
<1>6. i # None /\ i \in 1 .. Len(table) /\ table[i].filesystem /\ table[i].file \in 1 .. 6
  BY <1>1, <1>2, <1>4, <1>5 DEF UseOK, UseAt, OwnOK, Own
<1>7. /\ pc'[c] = "written" /\ at'[c] = i /\ file'[c] = table[i].file
      /\ \A d \in Cores \ {c} : pc'[d] = pc[d] /\ at'[d] = at[d] /\ file'[d] = file[d]
      /\ pc' \in [Cores -> {"next"} \cup Opening \cup Writing \cup Closing] /\ at' \in [Cores -> Nat]
      /\ file' \in [Cores -> Contexts]
  <2>1. file' = [file EXCEPT ![c] = table[i].file] /\ pc' = [pc EXCEPT ![c] = "written"]
        /\ at' = [at EXCEPT ![c] = i] /\ table[i].file \in Contexts /\ i \in Nat
        /\ "written" \in Writing \cup Closing
    BY <1>1, <1>2, <1>5, <1>6 DEF TypesOK, Contexts, Writing, Closing
  <2> QED
    BY <1>1, <2>1 DEF TypesOK
<1>30. UNCHANGED <<owner, todo, fd, mine, table, array, copy, objects, contexts, fails>> /\ Name(c)' = Name(c)
  BY <1>2 DEF Name
<1>9. pc[c] = "write" /\ pc[c] = Head(todo[c]).function
  BY <1>2
<1>8. OwnOK' /\ ReachedOK' /\ SlotsReturn' /\ CountOK'
  <2>1. UNCHANGED <<fd, table, objects, contexts, fails>>
    BY <1>2
  <2>2. \A d \in Cores :
            /\ pc'[d] \in {"fs_open", "done", "undo"} => pc'[d] = pc[d]
            /\ pc[d] \in {"fs_open", "done", "undo"} =>
                   pc'[d] = pc[d] /\ todo'[d] = todo[d] /\ file'[d] = file[d]
            /\ pc[d] = "clear_fs" => pc'[d] = "clear_fs" /\ at'[d] = at[d]
    BY <1>2, <1>7
  <2> QED
    BY <2>1, <2>2, OpensKept
<1>10. TypesOK'
  BY <1>1, <1>5, <1>6, <1>7, <1>30, <1>9 DEF TypesOK, Contexts, Slots, Opening, Writing, Closing
<1>11. OrderOK'
  BY <1>1, <1>5, <1>6, <1>7, <1>30, <1>9 DEF OrderOK
<1>12. PairedOK'
  BY <1>1, <1>5, <1>6, <1>7, <1>30, <1>9 DEF PairedOK
<1>13. PlaceOK'
  BY <1>1, <1>5, <1>6, <1>7, <1>30, <1>9 DEF PlaceOK, Opening, Writing
<1>14. LockOK'
  BY <1>1, <1>5, <1>6, <1>7, <1>30, <1>9 DEF LockOK
<1>15. OpenOK'
  BY <1>1, <1>5, <1>6, <1>7, <1>30, <1>9 DEF OpenOK, OpenAt, InTable, Name
<1>16. GrowOK'
  BY <1>1, <1>5, <1>6, <1>7, <1>30, <1>9 DEF GrowOK
<1>17. UseOK'
  <2>1. \A d \in Cores \ {c} :
            pc'[d] = pc[d] /\ at'[d] = at[d] /\ file'[d] = file[d] /\ todo'[d] = todo[d]
    BY <1>7, <1>30
  <2>2. UNCHANGED <<fd, table, array, mine>>
    BY <1>30
  <2> SUFFICES ASSUME NEW d \in Cores
               PROVE  /\ pc'[d] \in {"write", "written", "fs_write", "close", "fs_close"} =>
                            fd'[d][Head(todo'[d]).name] # None
                      /\ pc'[d] \in {"written", "fs_write", "fs_close"} =>
                            at'[d] = fd'[d][Head(todo'[d]).name] /\ file'[d] = table'[at'[d]].file
                      /\ pc'[d] \in {"clear_fs", "clear_file"} =>
                            at'[d] \in 1 .. Len(table') /\ mine'[d] = array'
                            /\ fd'[d][Head(todo'[d]).name] = None
                      /\ pc'[d] = "clear_fs" => table'[at'[d]].filesystem
                            /\ \A e \in Cores, n \in Names : fd'[e][n] # at'[d]
                      /\ pc'[d] = "clear_file" => ~table'[at'[d]].filesystem
    BY DEF UseOK, UseAt, Name, InTable, None
  <2>3. CASE d # c
    BY <1>1, <2>1, <2>2, <2>3 DEF UseOK, UseAt, Name, InTable
  <2>4. CASE d = c
    BY <1>5, <1>6, <1>7, <1>30, <2>2, <2>4 DEF Name
  <2> QED
    BY <2>3, <2>4
<1>18. ApartOK'
  BY <1>1, <1>5, <1>6, <1>7, <1>30, <1>9 DEF ApartOK
<1>19. OwnOK'
  BY <1>8
<1>20. SlotsReturn'
  BY <1>8
<1>21. ReachedOK'
  BY <1>8
<1>22. CountOK'
  BY <1>8
<1> QED
  BY <1>10, <1>11, <1>12, <1>13, <1>14, <1>15, <1>16, <1>17, <1>18, <1>19, <1>20, <1>21,
     <1>22 DEF FileInv

\* _close finds its descriptor in the table, with a file.
LEMMA CloseKeeps ==
    ASSUME FileInv, NEW c \in Cores, Close(c), NobodyMeets'
    PROVE  FileInv'
<1>1. /\ TypesOK /\ OrderOK /\ PairedOK /\ PlaceOK /\ LockOK /\ OpenOK /\ GrowOK /\ UseOK
      /\ ApartOK /\ OwnOK /\ SlotsReturn /\ ReachedOK /\ CountOK
  BY DEF FileInv
<1>2. /\ pc[c] = "close" /\ pc[c] = Head(todo[c]).function
      /\ at' = [at EXCEPT ![c] = fd[c][Name(c)]]
      /\ table[fd[c][Name(c)]].filesystem =>
            file' = [file EXCEPT ![c] = table[fd[c][Name(c)]].file] /\ pc' = [pc EXCEPT ![c] = "fs_close"]
      /\ UNCHANGED <<owner, todo, fd, mine, table, array, copy, objects, contexts, fails>>
  BY <1>1 DEF Close, Lookup, At, Go, memory
<1>3. todo[c] # <<>>
  BY <1>1, <1>2 DEF PlaceOK
<1>4. Name(c) \in Names
  <2>1. Head(todo[c]) \in Calls
    BY <1>1, <1>3, HeadTailProperties DEF TypesOK
  <2> QED
    BY <2>1 DEF Calls, Name
<1>5. PICK i : i = fd[c][Name(c)]
  OBVIOUS
<1>6. i # None /\ i \in 1 .. Len(table) /\ table[i].filesystem /\ table[i].file \in 1 .. 6
  BY <1>1, <1>2, <1>4, <1>5 DEF UseOK, UseAt, OwnOK, Own
<1>7. /\ pc'[c] = "fs_close" /\ at'[c] = i /\ file'[c] = table[i].file
      /\ \A d \in Cores \ {c} : pc'[d] = pc[d] /\ at'[d] = at[d] /\ file'[d] = file[d]
      /\ pc' \in [Cores -> {"next"} \cup Opening \cup Writing \cup Closing] /\ at' \in [Cores -> Nat]
      /\ file' \in [Cores -> Contexts]
  <2>1. file' = [file EXCEPT ![c] = table[i].file] /\ pc' = [pc EXCEPT ![c] = "fs_close"]
        /\ at' = [at EXCEPT ![c] = i] /\ table[i].file \in Contexts /\ i \in Nat
        /\ "fs_close" \in Writing \cup Closing
    BY <1>1, <1>2, <1>5, <1>6 DEF TypesOK, Contexts, Writing, Closing
  <2> QED
    BY <1>1, <2>1 DEF TypesOK
<1>30. UNCHANGED <<owner, todo, fd, mine, table, array, copy, objects, contexts, fails>> /\ Name(c)' = Name(c)
  BY <1>2 DEF Name
<1>9. pc[c] = "close" /\ pc[c] = Head(todo[c]).function
  BY <1>2
<1>8. OwnOK' /\ ReachedOK' /\ SlotsReturn' /\ CountOK'
  <2>1. UNCHANGED <<fd, table, objects, contexts, fails>>
    BY <1>2
  <2>2. \A d \in Cores :
            /\ pc'[d] \in {"fs_open", "done", "undo"} => pc'[d] = pc[d]
            /\ pc[d] \in {"fs_open", "done", "undo"} =>
                   pc'[d] = pc[d] /\ todo'[d] = todo[d] /\ file'[d] = file[d]
            /\ pc[d] = "clear_fs" => pc'[d] = "clear_fs" /\ at'[d] = at[d]
    BY <1>2, <1>7
  <2> QED
    BY <2>1, <2>2, OpensKept
<1>10. TypesOK'
  BY <1>1, <1>5, <1>6, <1>7, <1>30, <1>9 DEF TypesOK, Contexts, Slots, Opening, Writing, Closing
<1>11. OrderOK'
  BY <1>1, <1>5, <1>6, <1>7, <1>30, <1>9 DEF OrderOK
<1>12. PairedOK'
  BY <1>1, <1>5, <1>6, <1>7, <1>30, <1>9 DEF PairedOK
<1>13. PlaceOK'
  BY <1>1, <1>5, <1>6, <1>7, <1>30, <1>9 DEF PlaceOK, Opening, Writing
<1>14. LockOK'
  BY <1>1, <1>5, <1>6, <1>7, <1>30, <1>9 DEF LockOK
<1>15. OpenOK'
  BY <1>1, <1>5, <1>6, <1>7, <1>30, <1>9 DEF OpenOK, OpenAt, InTable, Name
<1>16. GrowOK'
  BY <1>1, <1>5, <1>6, <1>7, <1>30, <1>9 DEF GrowOK
<1>17. UseOK'
  BY <1>1, <1>5, <1>6, <1>7, <1>30, <1>9 DEF UseOK, UseAt, InTable, Name
<1>18. ApartOK'
  BY <1>1, <1>5, <1>6, <1>7, <1>30, <1>9 DEF ApartOK
<1>19. OwnOK'
  BY <1>8
<1>20. SlotsReturn'
  BY <1>8
<1>21. ReachedOK'
  BY <1>8
<1>22. CountOK'
  BY <1>8
<1> QED
  BY <1>10, <1>11, <1>12, <1>13, <1>14, <1>15, <1>16, <1>17, <1>18, <1>19, <1>20, <1>21,
     <1>22 DEF FileInv

\* f_open: the context is allocated before it is known whether the file opens.
LEMMA FileOpenKeeps ==
    ASSUME FileInv, NEW c \in Cores, NEW ok \in BOOLEAN, FileOpen(c, ok), NobodyMeets'
    PROVE  FileInv'
<1>1. /\ TypesOK /\ OrderOK /\ PairedOK /\ PlaceOK /\ LockOK /\ OpenOK /\ GrowOK /\ UseOK
      /\ ApartOK /\ OwnOK /\ SlotsReturn /\ ReachedOK /\ CountOK
  BY DEF FileInv
<1>2. /\ pc[c] = "fs_open"
      /\ contexts' = contexts + 1
      /\ \/ fails' = fails /\ pc' = [pc EXCEPT ![c] = "done"]
         \/ fails' = fails + 1 /\ pc' = [pc EXCEPT ![c] = "undo"]
      /\ UNCHANGED <<owner, todo, fd, at, file, mine, table, array, copy, objects>>
  BY <1>1 DEF FileOpen, At, Go
<1>3. /\ pc'[c] \in {"done", "undo"} /\ \A d \in Cores \ {c} : pc'[d] = pc[d]
      /\ pc'[c] = "done" => fails' = fails
      /\ pc'[c] = "undo" => fails' = fails + 1
      /\ pc' \in [Cores -> {"next"} \cup Opening \cup Writing \cup Closing] /\ fails' \in Nat
  <2>1. {"done", "undo"} \subseteq Opening
    BY DEF Opening
  <2>2. CASE fails' = fails /\ pc' = [pc EXCEPT ![c] = "done"]
    BY <1>1, <2>1, <2>2 DEF TypesOK
  <2>3. CASE fails' = fails + 1 /\ pc' = [pc EXCEPT ![c] = "undo"]
    BY <1>1, <2>1, <2>3 DEF TypesOK
  <2> QED
    BY <1>2, <2>2, <2>3
<1>4. UNCHANGED <<owner, todo, fd, at, file, mine, table, array, copy, objects>> /\ contexts' = contexts + 1
  BY <1>2
<1>10. TypesOK'
  BY <1>1, <1>2, <1>3, <1>4 DEF TypesOK, Contexts, Slots, Opening, Writing, Closing
<1>11. OrderOK'
  BY <1>1, <1>2, <1>3, <1>4 DEF OrderOK
<1>12. PairedOK'
  BY <1>1, <1>2, <1>3, <1>4 DEF PairedOK
<1>13. PlaceOK'
  BY <1>1, <1>2, <1>3, <1>4 DEF PlaceOK, Opening, Writing
<1>14. LockOK'
  BY <1>1, <1>2, <1>3, <1>4 DEF LockOK
<1>15. OpenOK'
  BY <1>1, <1>2, <1>3, <1>4 DEF OpenOK, OpenAt, InTable, Name
<1>16. GrowOK'
  BY <1>1, <1>2, <1>3, <1>4 DEF GrowOK
<1>17. UseOK'
  BY <1>1, <1>2, <1>3, <1>4 DEF UseOK, UseAt, InTable, Name
<1>18. ApartOK'
  BY <1>1, <1>2, <1>3, <1>4 DEF ApartOK
<1>19. OwnOK'
  BY <1>1, <1>4 DEF OwnOK, Own, None
<1>20. SlotsReturn'
  BY <1>1, <1>2, <1>3, <1>4 DEF SlotsReturn, Vacant, At, None
<1>21. ReachedOK'
  <2>1. \A d \in Cores : pc[d] \in {"fs_open", "done", "undo"} => pc'[d] \in {"fs_open", "done", "undo"}
    BY <1>2, <1>3
  <2> QED
    BY <1>1, <1>4, <2>1 DEF ReachedOK, Reached, Name
<1>22. CountOK'
  <2>1. contexts \in Int /\ fails \in Nat /\ contexts =< fails + Cardinality(WithContext)
    BY <1>1 DEF TypesOK, CountOK
  <2>2. IsFiniteSet(WithContext) /\ Cardinality(WithContext) \in Nat
    BY ContextsFinite
  <2>3. Pending = {file[c]} /\ file[c] \in 1 .. 6 /\ objects[file[c]] # Free
    BY <1>1, <1>2, PendingIs, Places DEF OpenOK, OpenAt, Name
  <2>4. file[c] \notin WithContext
    BY <2>3 DEF WithContext
  <2>5. CASE pc'[c] = "undo"
    <3>1. Pending' = Pending
      BY <1>2, <1>3, <1>4, <2>5 DEF Pending
    <3>2. WithContext' = WithContext
      BY <1>4, <3>1 DEF WithContext
    <3> QED
      BY <1>3, <1>4, <2>1, <2>2, <2>5, <3>2 DEF CountOK
  <2>6. CASE pc'[c] = "done"
    <3>1. \A d \in Cores \ {c} : pc[d] \notin {"fs_open", "undo"}
      BY <1>2, Exclusion DEF Opening
    <3>2. Pending' = {}
      BY <1>3, <2>6, <3>1 DEF Pending
    <3>3. WithContext' = WithContext \cup {file[c]}
      BY <1>4, <2>3, <3>2 DEF WithContext
    <3>4. Cardinality(WithContext') = Cardinality(WithContext) + 1
      BY <2>2, <2>4, <3>3, FS_AddElement
    <3> QED
      BY <1>3, <1>4, <2>1, <2>2, <2>6, <3>4 DEF CountOK
  <2> QED
    BY <1>3, <2>5, <2>6
<1> QED
  BY <1>10, <1>11, <1>12, <1>13, <1>14, <1>15, <1>16, <1>17, <1>18, <1>19, <1>20, <1>21,
     <1>22 DEF FileInv

-----------------------------------------------------------------------------
(* The steps of _open.                                                     *)

\* A core that opens a file has it not open, and no place taken for it.
LEMMA NotYetOpen ==
    ASSUME FileInv, NEW c \in Cores, pc[c] \in Opening
    PROVE  /\ todo[c] # <<>> /\ Head(todo[c]) \in Calls /\ Head(todo[c]).function = "open"
           /\ Name(c) \in Names /\ Head(todo[c]) = Call("open", Name(c)) /\ fd[c][Name(c)] = None
<1>1. TypesOK /\ PlaceOK /\ PairedOK
  BY DEF FileInv
<1>2. todo[c] # <<>> /\ Head(todo[c]).function = "open"
  BY <1>1 DEF PlaceOK, Opening
<1>3. Head(todo[c]) \in Calls /\ Head(todo[c]) = todo[c][1] /\ 1 \in 1 .. Len(todo[c])
  <2>1. todo[c] \in Seq(Calls)
    BY <1>1 DEF TypesOK
  <2> QED
    BY <1>2, <2>1, HeadTailProperties
<1>4. Name(c) \in Names /\ Head(todo[c]) = Call("open", Name(c))
  BY <1>2, <1>3 DEF Calls, Name, Call
<1>5. fd[c][Name(c)] = None
  BY <1>1, <1>3, <1>4 DEF PairedOK
<1> QED
  BY <1>2, <1>3, <1>4, <1>5

\* There is always a place for the file that is opened: each core has each file open once.
LEMMA FreePlace ==
    ASSUME FileInv, NEW c \in Cores, pc[c] = "slot"
    PROVE  \E o \in 1 .. 6 : objects[o] = Free
<1> SUFFICES ASSUME \A o \in 1 .. 6 : objects[o] # Free PROVE FALSE
  OBVIOUS
<1>1. TypesOK /\ ReachedOK /\ Name(c) \in Names /\ fd[c][Name(c)] = None
  BY NotYetOpen DEF FileInv, Opening
<1> DEFINE T == (Cores \X Names) \ {<<c, Name(c)>>}
<1>2. PICK m \in Nat : m = 6
  OBVIOUS
<1>3. objects \in [1 .. m -> T]
  <2>1. objects \in [1 .. 6 -> Cores \X Names]
    BY <1>1 DEF TypesOK, Owners
  <2>2. \A o \in 1 .. 6 : objects[o] # <<c, Name(c)>>
    BY <1>1 DEF ReachedOK, Reached
  <2> QED
    BY <1>2, <2>1, <2>2
<1>4. IsFiniteSet(1 .. m) /\ Cardinality(1 .. m) = m
  BY FS_Interval
<1>5. IsFiniteSet(T) /\ Cardinality(T) = 5
  <2>1. IsFiniteSet({core0}) /\ Cardinality({core0}) = 1 /\ core1 \notin {core0} /\ {core0} \cup {core1} = Cores
    BY FS_Singleton, Places
  <2>2. IsFiniteSet(Cores) /\ Cardinality(Cores) = 2
    BY <2>1, FS_AddElement
  <2>3. IsFiniteSet(Names) /\ Cardinality(Names) = 3
    BY Places
  <2>4. IsFiniteSet(Cores \X Names) /\ Cardinality(Cores \X Names) = 2 * 3
    BY <2>2, <2>3, FS_Product
  <2>5. PICK P, x : P = Cores \X Names /\ x = <<c, Name(c)>>
    OBVIOUS
  <2>6. x \in P /\ IsFiniteSet(P) /\ Cardinality(P) = 6
    BY <1>1, <2>4, <2>5
  <2>7. IsFiniteSet(P \ {x}) /\ Cardinality(P \ {x}) = 5
    BY <2>6, FS_RemoveElement
  <2> QED
    BY <2>5, <2>7
<1>6. PICK o \in 1 .. m, p \in 1 .. m : o # p /\ objects[o] = objects[p]
  <2> HIDE DEF T
  <2>1. Cardinality(T) < Cardinality(1 .. m)
    BY <1>2, <1>4, <1>5
  <2> QED
    BY <1>3, <1>4, <1>5, <2>1, FS_PigeonHole
<1>7. PICK d \in Cores, n \in Names : objects[o] = <<d, n>>
  BY <1>3
<1>8. ASSUME NEW q \in 1 .. 6, objects[q] = <<d, n>>
      PROVE  q = IF fd[d][n] # None THEN table[fd[d][n]].file ELSE file[d]
  <2>1. CASE pc[d] \in {"fs_open", "done", "undo"} /\ Name(d) = n
    <3>1. fd[d][n] = None
      BY <2>1, NotYetOpen DEF Opening
    <3> QED
      BY <1>1, <1>8, <3>1 DEF ReachedOK, Reached
  <2>2. CASE ~(pc[d] \in {"fs_open", "done", "undo"} /\ Name(d) = n)
    BY <1>1, <1>8, <2>2 DEF ReachedOK, Reached
  <2> QED
    BY <2>1, <2>2
<1>9. o \in 1 .. 6 /\ p \in 1 .. 6 /\ objects[p] = <<d, n>>
  BY <1>2, <1>6, <1>7
<1>10. o = p
  BY <1>7, <1>8, <1>9
<1> QED
  BY <1>6, <1>10

\* The fs_file_t of an open, stored in the slot the open has taken.
LEMMA AllocateFileKeeps ==
    ASSUME FileInv, NEW c \in Cores, AllocateFile(c), NobodyMeets'
    PROVE  FileInv'
<1>1. /\ TypesOK /\ OrderOK /\ PairedOK /\ PlaceOK /\ LockOK /\ OpenOK /\ GrowOK /\ UseOK
      /\ ApartOK /\ OwnOK /\ SlotsReturn /\ ReachedOK /\ CountOK
  BY DEF FileInv
<1>2. /\ pc[c] = "slot"
      /\ objects' = [objects EXCEPT ![Min({i \in DOMAIN objects : objects[i] = Free})] = <<c, Name(c)>>]
      /\ file' = [file EXCEPT ![c] = Min({i \in DOMAIN objects : objects[i] = Free})]
      /\ table' = [table EXCEPT ![at[c]].file = Min({i \in DOMAIN objects : objects[i] = Free})]
      /\ pc' = [pc EXCEPT ![c] = "fs_open"]
      /\ UNCHANGED <<owner, todo, fd, at, mine, array, copy, contexts, fails>>
  BY <1>1 DEF AllocateFile, At, Go
<1>3. PICK o, i : o = Min({k \in DOMAIN objects : objects[k] = Free}) /\ i = at[c]
  OBVIOUS
<1>4. o \in 1 .. 6 /\ objects[o] = Free
  <2>1. DOMAIN objects = 1 .. 6
    BY <1>1 DEF TypesOK
  <2>2. {k \in DOMAIN objects : objects[k] = Free} # {} /\ {k \in DOMAIN objects : objects[k] = Free} \in SUBSET Nat
    BY <1>2, <2>1, FreePlace
  <2>3. o \in {k \in DOMAIN objects : objects[k] = Free}
    BY <1>3, <2>2, LeastOf
  <2> QED
    BY <2>1, <2>3
<1>5. i \in 1 .. Len(table) /\ table[i].filesystem = FALSE
  <2>1. i \in 1 .. Len(table) /\ ~table[i].filesystem
    BY <1>1, <1>2, <1>3 DEF OpenOK, OpenAt, InTable
  <2>2. table[i] \in Slots
    BY <1>1, <2>1 DEF TypesOK
  <2> QED
    BY <2>1, <2>2 DEF Slots
<1>6. /\ Name(c) \in Names /\ fd[c][Name(c)] = None /\ Head(todo[c]).function = "open" /\ todo[c] # <<>>
      /\ \A d \in Cores : Name(d)' = Name(d)
  BY <1>2, NotYetOpen DEF Opening, Name
<1>7. UNCHANGED <<owner, todo, fd, at, mine, array, copy, contexts, fails>> /\ pc[c] = "slot"
  BY <1>2
<1>8. /\ table' \in Seq(Slots) /\ Len(table') = Len(table)
      /\ table'[i].filesystem = FALSE /\ table'[i].file = o
      /\ \A k \in 1 .. Len(table) : k # i => table'[k] = table[k]
  <2>1. table \in Seq(Slots) /\ o \in Contexts /\ table' = [table EXCEPT ![i].file = o]
    BY <1>1, <1>2, <1>3, <1>4 DEF TypesOK, Contexts
  <2> QED
    BY <1>5, <2>1, StoredFile
<1>9. /\ objects'[o] = <<c, Name(c)>> /\ \A k \in 1 .. 6 : k # o => objects'[k] = objects[k]
      /\ objects' \in [1 .. 6 -> Owners]
  BY <1>1, <1>2, <1>3, <1>4, <1>6 DEF TypesOK, Owners
<1>32. /\ pc'[c] = "fs_open" /\ file'[c] = o /\ file' \in [Cores -> Contexts]
       /\ pc' \in [Cores -> {"next"} \cup Opening \cup Writing \cup Closing]
  BY <1>1, <1>2, <1>3, <1>4 DEF TypesOK, Opening, Contexts
<1>30. \A d \in Cores \ {c} :
           /\ pc'[d] = pc[d] /\ todo'[d] = todo[d] /\ at'[d] = at[d] /\ file'[d] = file[d]
           /\ mine'[d] = mine[d] /\ fd'[d] = fd[d]
  BY <1>1, <1>2 DEF TypesOK
<1>31. \A d \in Cores \ {c} : pc[d] \notin Opening
  BY <1>2, Exclusion DEF Opening
<1>33. \A d \in Cores, n \in Names : fd[d][n] # None =>
           /\ fd[d][n] \in 1 .. Len(table) /\ fd[d][n] # i /\ table[fd[d][n]].file # o
  <2> SUFFICES ASSUME NEW d \in Cores, NEW n \in Names, fd[d][n] # None
               PROVE  fd[d][n] \in 1 .. Len(table) /\ fd[d][n] # i /\ table[fd[d][n]].file # o
    OBVIOUS
  <2>1. Own(d, n)
    BY <1>1 DEF OwnOK
  <2> QED
    BY <1>4, <1>5, <2>1, Places DEF Own
<1>10. TypesOK'
  BY <1>1, <1>7, <1>8, <1>9, <1>32 DEF TypesOK
<1>11. OrderOK'
  BY <1>1, <1>7 DEF OrderOK
<1>12. PairedOK'
  BY <1>1, <1>7 DEF PairedOK
<1>13. PlaceOK'
  BY <1>1, <1>6, <1>7, <1>30, <1>32 DEF PlaceOK, Opening, Writing
<1>14. LockOK'
  BY <1>1, <1>7, <1>30, <1>32 DEF LockOK
<1>15. OpenOK'
  <2>1. \A d \in Cores \ {c} : OpenAt(d)'
    BY <1>30, <1>31 DEF OpenAt, Opening
  <2>2. OpenAt(c)'
    BY <1>3, <1>4, <1>5, <1>6, <1>7, <1>8, <1>9, <1>32 DEF OpenAt, InTable
  <2> QED
    BY <2>1, <2>2 DEF OpenOK
<1>16. GrowOK'
  BY <1>30, <1>31, <1>32 DEF GrowOK, Opening
<1>17. UseOK'
  <2>1. ASSUME NEW d \in Cores, d # c PROVE UseAt(d)'
    <3>1. /\ pc'[d] = pc[d] /\ todo'[d] = todo[d] /\ at'[d] = at[d] /\ file'[d] = file[d]
          /\ mine'[d] = mine[d] /\ fd'[d] = fd[d]
      BY <1>30, <2>1
    <3>2. pc[d] \in {"clear_fs", "clear_file"} =>
            /\ array' = array /\ Len(table') = Len(table)
            /\ table'[at[d]].filesystem = table[at[d]].filesystem
      BY <1>1, <1>5, <1>7, <1>8, <2>1 DEF UseOK, UseAt, InTable, ApartOK
    <3>3. pc[d] \in {"written", "fs_write", "fs_close"} => table'[at[d]].file = table[at[d]].file
      BY <1>1, <1>5, <1>7, <1>8, <2>1, InUse
    <3>4. pc[d] = "clear_fs" => \A n \in Names : fd'[c][n] # at[d]
      BY <1>1, <1>5, <1>7, <1>8, <2>1 DEF UseOK, UseAt
    <3> QED
      BY <2>1, <3>1, <3>2, <3>3, <3>4, UseKept
  <2>2. UseAt(c)'
    BY <1>32 DEF UseAt
  <2> QED
    BY <2>1, <2>2 DEF UseOK
<1>18. ApartOK'
  BY <1>1, <1>7, <1>30, <1>32 DEF ApartOK
<1>19. OwnOK'
  <2> SUFFICES ASSUME NEW d \in Cores, NEW n \in Names PROVE Own(d, n)'
    BY DEF OwnOK
  <2> QED
    BY <1>1, <1>7, <1>8, <1>9, <1>33, OwnKept DEF OwnOK, Own
<1>20. SlotsReturn'
  <2> SUFFICES ASSUME NEW k \in DOMAIN table', table'[k].filesystem
               PROVE  \E d \in Cores : (\E n \in Names : fd'[d][n] = k) \/ (pc'[d] = "clear_fs" /\ at'[d] = k)
    BY DEF SlotsReturn, Vacant, At
  <2>1. DOMAIN table' = 1 .. Len(table) /\ DOMAIN table = 1 .. Len(table)
    BY <1>1, <1>8 DEF TypesOK
  <2>2. k # i
    BY <1>8
  <2>3. k \in DOMAIN table /\ table[k].filesystem
    BY <1>8, <2>1, <2>2
  <2> QED
    BY <1>7, <1>30, <2>3, SlotsKept
<1>21. ReachedOK'
  <2> SUFFICES ASSUME NEW q \in 1 .. 6, NEW d \in Cores, NEW n \in Names PROVE Reached(q, d, n)'
    BY DEF ReachedOK
  <2>1. CASE q = o
    BY <1>6, <1>9, <1>32, <2>1 DEF Reached
  <2>2. CASE q # o
    BY <1>7, <1>8, <1>9, <1>30, <1>33, <2>2, ReachedKept
  <2> QED
    BY <2>1, <2>2
<1>22. CountOK'
  <2>1. Pending = {} /\ Pending' = {o}
    BY <1>7, <1>30, <1>31, <1>32 DEF Pending, Opening
  <2>2. WithContext' = WithContext
    BY <1>4, <1>9, <2>1, Places DEF WithContext
  <2> QED
    BY <1>1, <1>7, <2>2 DEF CountOK
<1> QED
  BY <1>10, <1>11, <1>12, <1>13, <1>14, <1>15, <1>16, <1>17, <1>18, <1>19, <1>20, <1>21,
     <1>22 DEF FileInv

\* A file that has been opened: its slot is in use and the descriptor leads to it.
LEMMA OpenedKeeps ==
    ASSUME FileInv, NEW c \in Cores, Opened(c), NobodyMeets'
    PROVE  FileInv'
<1>1. /\ TypesOK /\ OrderOK /\ PairedOK /\ PlaceOK /\ LockOK /\ OpenOK /\ GrowOK /\ UseOK
      /\ ApartOK /\ OwnOK /\ SlotsReturn /\ ReachedOK /\ CountOK
  BY DEF FileInv
<1>2. /\ pc[c] = "done"
      /\ pc' = [pc EXCEPT ![c] = "next"] /\ todo' = [todo EXCEPT ![c] = Tail(@)]
      /\ at' = [at EXCEPT ![c] = None] /\ file' = [file EXCEPT ![c] = None]
      /\ mine' = [mine EXCEPT ![c] = 0]
      /\ owner' = [owner EXCEPT ![Head(todo[c]).function] = Nobody]
      /\ table' = [table EXCEPT ![at[c]].filesystem = TRUE]
      /\ fd' = [fd EXCEPT ![c][Name(c)] = at[c]]
      /\ UNCHANGED <<array, copy, objects, contexts, fails>>
  BY <1>1 DEF Opened, Return, Exit, Forget, At, Go
<1>3. PICK o, i : o = file[c] /\ i = at[c]
  OBVIOUS
<1>4. /\ i \in 1 .. Len(table) /\ table[i].filesystem = FALSE /\ table[i].file = o
      /\ o \in 1 .. 6 /\ objects[o] = <<c, Name(c)>> /\ file[c] = o /\ pc[c] = "done"
  <2>1. /\ i \in 1 .. Len(table) /\ ~table[i].filesystem /\ table[i].file = o
        /\ o \in 1 .. 6 /\ objects[o] = <<c, Name(c)>>
    BY <1>1, <1>2, <1>3 DEF OpenOK, OpenAt, InTable
  <2>2. table[i] \in Slots
    BY <1>1, <2>1 DEF TypesOK
  <2> QED
    BY <1>2, <1>3, <2>1, <2>2 DEF Slots
<1>5. /\ Name(c) \in Names /\ fd[c][Name(c)] = None /\ todo[c] # <<>>
      /\ Head(todo[c]) = Call("open", Name(c))
  BY <1>2, NotYetOpen DEF Opening
<1>6. todo' \in [Cores -> Seq(Calls)] /\ OrderOK' /\ \A d \in Cores \ {c} : Name(d)' = Name(d)
  BY <1>1, <1>2, <1>5, TailOrder DEF Name
<1>7. /\ pc'[c] = "next"
      /\ \A d \in Cores \ {c} :
            /\ pc'[d] = pc[d] /\ todo'[d] = todo[d] /\ at'[d] = at[d] /\ file'[d] = file[d]
            /\ mine'[d] = mine[d] /\ fd'[d] = fd[d]
  BY <1>1, <1>2 DEF TypesOK
<1>8. /\ table' \in Seq(Slots) /\ Len(table') = Len(table)
      /\ table'[i].filesystem = TRUE /\ table'[i].file = o
      /\ \A k \in 1 .. Len(table) : k # i => table'[k] = table[k]
  <2>1. table \in Seq(Slots) /\ table[i] \in Slots /\ i \in 1 .. Len(table)
    BY <1>1, <1>4 DEF TypesOK
  <2>2. PICK s : s = [table[i] EXCEPT !.filesystem = TRUE]
    OBVIOUS
  <2>3. s \in Slots /\ s.file = table[i].file
    BY <2>1, <2>2 DEF Slots
  <2>4. s.filesystem = TRUE
    BY <2>1, <2>2 DEF Slots
  <2>5. table' = [table EXCEPT ![i] = s]
    BY <1>2, <1>3, <1>4, <2>2
  <2>6. /\ table' \in Seq(Slots) /\ Len(table') = Len(table) /\ table'[i] = s
        /\ \A k \in 1 .. Len(table) : k # i => table'[k] = table[k]
    BY <2>1, <2>3, <2>5, StoredSlot
  <2>7. table'[i].filesystem = TRUE
    BY <2>4, <2>6
  <2> QED
    BY <1>4, <2>3, <2>6, <2>7
<1>9. /\ fd' \in [Cores -> [Names -> Nat]] /\ fd'[c][Name(c)] = i
      /\ \A n \in Names : n # Name(c) => fd'[c][n] = fd[c][n]
  BY <1>1, <1>2, <1>3, <1>4, <1>5 DEF TypesOK
<1>32. UNCHANGED <<array, copy, objects, contexts, fails>>
  BY <1>2
<1>31. \A d \in Cores \ {c} : pc[d] \notin Opening
  BY <1>2, Exclusion DEF Opening
<1>33. \A d \in Cores, n \in Names : fd[d][n] # None =>
           /\ fd[d][n] \in 1 .. Len(table) /\ fd[d][n] # i /\ table[fd[d][n]].file # o
           /\ table[fd[d][n]].file \in 1 .. 6
  <2> SUFFICES ASSUME NEW d \in Cores, NEW n \in Names, fd[d][n] # None
               PROVE  /\ fd[d][n] \in 1 .. Len(table) /\ fd[d][n] # i /\ table[fd[d][n]].file # o
                      /\ table[fd[d][n]].file \in 1 .. 6
    OBVIOUS
  <2>1. Own(d, n)
    BY <1>1 DEF OwnOK
  <2>2. d # c \/ n # Name(c)
    BY <1>5
  <2> QED
    BY <1>4, <2>1, <2>2 DEF Own
<1>10. TypesOK'
  <2>1. /\ pc' \in [Cores -> {"next"} \cup Opening \cup Writing \cup Closing]
        /\ at' \in [Cores -> Nat] /\ file' \in [Cores -> Contexts] /\ mine' \in [Cores -> Nat]
    BY <1>1, <1>2 DEF TypesOK, Contexts, None
  <2>2. owner' \in [Functions -> Cores \cup {Nobody}]
    BY <1>1, <1>2 DEF TypesOK
  <2> QED
    BY <1>1, <1>6, <1>8, <1>9, <1>32, <2>1, <2>2 DEF TypesOK
<1>11. OrderOK'
  BY <1>6
<1>12. PairedOK'
  <2>1. \A n \in Names : fd'[c][n] # None =>
            \/ fd[c][n] # None /\ Head(todo[c]) # Call("close", n)
            \/ Head(todo[c]) = Call("open", n)
    BY <1>5, <1>9 DEF Call
  <2>2. \A d \in Cores \ {c} : fd'[d] = fd[d]
    BY <1>7
  <2> QED
    BY <1>1, <1>2, <1>5, <2>1, <2>2, TailPaired
<1>13. PlaceOK'
  BY <1>1, <1>7 DEF PlaceOK
<1>14. LockOK'
  <2>1. \A d \in Cores \ {c} : pc'[d] = pc[d] /\ todo'[d] = todo[d]
    BY <1>7
  <2> QED
    BY <1>2, <1>7, <2>1, ReturnLock
<1>15. OpenOK'
  <2> SUFFICES ASSUME NEW d \in Cores PROVE OpenAt(d)'
    BY DEF OpenOK
  <2> QED
    BY <1>7, <1>31 DEF OpenAt, Opening
<1>16. GrowOK'
  BY <1>7, <1>31 DEF GrowOK, Opening
<1>17. UseOK'
  <2>1. ASSUME NEW d \in Cores, d # c PROVE UseAt(d)'
    <3>1. /\ pc'[d] = pc[d] /\ todo'[d] = todo[d] /\ at'[d] = at[d] /\ file'[d] = file[d]
          /\ mine'[d] = mine[d] /\ fd'[d] = fd[d]
      BY <1>7, <2>1
    <3>2. pc[d] \in {"clear_fs", "clear_file"} =>
            /\ array' = array /\ Len(table') = Len(table)
            /\ table'[at[d]].filesystem = table[at[d]].filesystem
      <4>1. pc[d] \in {"clear_fs", "clear_file"} => at[d] \in 1 .. Len(table)
        BY <1>1 DEF UseOK, UseAt, InTable
      <4>2. pc[d] = "clear_fs" => at[d] # i
        BY <1>1, <1>4 DEF UseOK, UseAt
      <4>3. pc[d] = "clear_file" => at[d] # i
        BY <1>1, <1>3, <1>4 DEF ApartOK
      <4> QED
        BY <1>8, <1>32, <4>1, <4>2, <4>3
    <3>3. pc[d] \in {"written", "fs_write", "fs_close"} => table'[at[d]].file = table[at[d]].file
      BY <1>1, <1>4, <1>7, <1>8, <1>9, <1>32, <2>1, InUse
    <3>4. pc[d] = "clear_fs" => \A n \in Names : fd'[c][n] # at[d]
      BY <1>1, <1>4, <1>7, <1>8, <1>9, <1>32, <2>1 DEF UseOK, UseAt
    <3> QED
      BY <2>1, <3>1, <3>2, <3>3, <3>4, UseKept
  <2>2. UseAt(c)'
    BY <1>7 DEF UseAt
  <2> QED
    BY <2>1, <2>2 DEF UseOK
<1>18. ApartOK'
  BY <1>7, <1>31 DEF ApartOK, Opening
<1>19. OwnOK'
  <2> SUFFICES ASSUME NEW d \in Cores, NEW n \in Names PROVE Own(d, n)'
    BY DEF OwnOK
  <2>1. CASE d = c /\ n = Name(c)
    <3>1. fd'[d][n] = i /\ table'[i].file = o /\ objects'[o] = <<d, n>> /\ i \in 1 .. Len(table')
      BY <1>4, <1>8, <1>9, <1>32, <2>1
    <3>2. o \in 1 .. 6 /\ table'[i].filesystem = TRUE
      BY <1>4, <1>8
    <3>3. table'[fd'[d][n]].filesystem = TRUE
      BY <3>1, <3>2
    <3>4. table'[fd'[d][n]].filesystem
      BY <3>3
    <3>5. table'[fd'[d][n]].file = o
      BY <3>1
    <3> QED
      BY <3>1, <3>2, <3>4, <3>5 DEF Own
  <2>2. CASE d # c \/ n # Name(c)
    <3>1. fd'[d][n] = fd[d][n]
      BY <1>7, <1>9, <2>2
    <3>2. fd[d][n] # None =>
            /\ fd[d][n] \in 1 .. Len(table') /\ table'[fd[d][n]] = table[fd[d][n]]
            /\ objects'[table[fd[d][n]].file] = objects[table[fd[d][n]].file]
      BY <1>8, <1>32, <1>33
    <3> QED
      BY <3>1, <3>2, OwnKept
  <2> QED
    BY <2>1, <2>2
<1>20. SlotsReturn'
  <2> SUFFICES ASSUME NEW k \in DOMAIN table', table'[k].filesystem
               PROVE  \E d \in Cores : (\E n \in Names : fd'[d][n] = k) \/ (pc'[d] = "clear_fs" /\ at'[d] = k)
    BY DEF SlotsReturn, Vacant, At
  <2>1. DOMAIN table' = 1 .. Len(table) /\ DOMAIN table = 1 .. Len(table)
    BY <1>1, <1>8 DEF TypesOK
  <2>2. CASE k = i
    BY <1>5, <1>9, <2>2
  <2>3. CASE k # i
    <3>1. k \in DOMAIN table /\ table[k].filesystem
      BY <1>8, <2>1, <2>3
    <3>2. \A d \in Cores, n \in Names : fd[d][n] = k => fd'[d][n] = k
      <4>1. k # None
        BY <2>1, <3>1 DEF None
      <4> QED
        BY <1>5, <1>7, <1>9, <4>1
    <3>3. \A d \in Cores : pc[d] = "clear_fs" /\ at[d] = k => pc'[d] = "clear_fs" /\ at'[d] = k
      BY <1>4, <1>7
    <3> QED
      BY <3>1, <3>2, <3>3, SlotsKept
  <2> QED
    BY <2>2, <2>3
<1>21. ReachedOK'
  <2> SUFFICES ASSUME NEW q \in 1 .. 6, NEW d \in Cores, NEW n \in Names PROVE Reached(q, d, n)'
    BY DEF ReachedOK
  <2>1. CASE d # c
    BY <1>7, <1>8, <1>32, <1>33, <2>1, ReachedKept
  <2>2. CASE d = c /\ n = Name(c)
    <3>1. Reached(q, c, n)
      BY <1>1, <2>2 DEF ReachedOK
    <3>2. objects[q] = <<c, n>> => q = o
      BY <1>4, <1>5, <2>2, <3>1 DEF Reached
    <3>3. fd'[c][n] = i /\ i # None /\ table'[i].file = o
      BY <1>4, <1>8, <1>9, <2>2 DEF None
    <3> QED
      BY <1>32, <2>2, <3>2, <3>3 DEF Reached, None
  <2>3. CASE d = c /\ n # Name(c)
    <3>1. Reached(q, c, n)
      BY <1>1, <2>3 DEF ReachedOK
    <3>2. objects[q] = <<c, n>> => fd[c][n] # None /\ table[fd[c][n]].file = q
      BY <2>3, <3>1 DEF Reached
    <3>3. fd[c][n] # None => fd'[c][n] = fd[c][n] /\ table'[fd[c][n]] = table[fd[c][n]]
      BY <1>8, <1>9, <1>33, <2>3
    <3> QED
      BY <1>32, <2>3, <3>2, <3>3 DEF Reached, None
  <2> QED
    BY <2>1, <2>2, <2>3
<1>22. CountOK'
  <2>1. Pending = {} /\ Pending' = {}
    BY <1>4, <1>7, <1>31 DEF Pending, Opening
  <2>2. WithContext' = WithContext
    BY <1>32, <2>1 DEF WithContext
  <2> QED
    BY <1>1, <1>32, <2>2 DEF CountOK
<1> QED
  BY <1>10, <1>11, <1>12, <1>13, <1>14, <1>15, <1>16, <1>17, <1>18, <1>19, <1>20, <1>21,
     <1>22 DEF FileInv

\* f_open has failed: the file is freed, its context is not.
LEMMA OpenFailedKeeps ==
    ASSUME FileInv, NEW c \in Cores, OpenFailed(c), NobodyMeets'
    PROVE  FileInv'
<1>1. /\ TypesOK /\ OrderOK /\ PairedOK /\ PlaceOK /\ LockOK /\ OpenOK /\ GrowOK /\ UseOK
      /\ ApartOK /\ OwnOK /\ SlotsReturn /\ ReachedOK /\ CountOK
  BY DEF FileInv
<1>2. /\ pc[c] = "undo"
      /\ pc' = [pc EXCEPT ![c] = "next"] /\ todo' = [todo EXCEPT ![c] = Tail(@)]
      /\ at' = [at EXCEPT ![c] = None] /\ file' = [file EXCEPT ![c] = None]
      /\ mine' = [mine EXCEPT ![c] = 0]
      /\ owner' = [owner EXCEPT ![Head(todo[c]).function] = Nobody]
      /\ table' = [table EXCEPT ![at[c]].file = None]
      /\ objects' = [objects EXCEPT ![file[c]] = Free]
      /\ UNCHANGED <<fd, array, copy, contexts, fails>>
  BY <1>1 DEF OpenFailed, Return, Exit, Forget, At, Go
<1>3. PICK o, i : o = file[c] /\ i = at[c]
  OBVIOUS
<1>4. /\ i \in 1 .. Len(table) /\ table[i].filesystem = FALSE /\ table[i].file = o
      /\ o \in 1 .. 6 /\ objects[o] = <<c, Name(c)>> /\ file[c] = o /\ pc[c] = "undo"
  <2>1. /\ i \in 1 .. Len(table) /\ ~table[i].filesystem /\ table[i].file = o
        /\ o \in 1 .. 6 /\ objects[o] = <<c, Name(c)>>
    BY <1>1, <1>2, <1>3 DEF OpenOK, OpenAt, InTable
  <2>2. table[i] \in Slots
    BY <1>1, <2>1 DEF TypesOK
  <2> QED
    BY <1>2, <1>3, <2>1, <2>2 DEF Slots
<1>5. /\ Name(c) \in Names /\ fd[c][Name(c)] = None /\ todo[c] # <<>>
      /\ Head(todo[c]) = Call("open", Name(c))
  BY <1>2, NotYetOpen DEF Opening
<1>6. todo' \in [Cores -> Seq(Calls)] /\ OrderOK' /\ \A d \in Cores \ {c} : Name(d)' = Name(d)
  BY <1>1, <1>2, <1>5, TailOrder DEF Name
<1>7. /\ pc'[c] = "next"
      /\ \A d \in Cores \ {c} :
            /\ pc'[d] = pc[d] /\ todo'[d] = todo[d] /\ at'[d] = at[d] /\ file'[d] = file[d]
            /\ mine'[d] = mine[d] /\ fd'[d] = fd[d]
  BY <1>1, <1>2 DEF TypesOK
<1>8. /\ table' \in Seq(Slots) /\ Len(table') = Len(table) /\ table'[i].filesystem = FALSE
      /\ \A k \in 1 .. Len(table) : k # i => table'[k] = table[k]
  <2>1. table \in Seq(Slots) /\ None \in Contexts /\ table' = [table EXCEPT ![i].file = None]
    BY <1>1, <1>2, <1>3 DEF TypesOK, Contexts, None
  <2> QED
    BY <1>4, <2>1, StoredFile
<1>9. /\ objects' \in [1 .. 6 -> Owners] /\ objects'[o] = Free
      /\ \A k \in 1 .. 6 : k # o => objects'[k] = objects[k]
  BY <1>1, <1>2, <1>3, <1>4 DEF TypesOK, Owners
<1>32. UNCHANGED <<fd, array, copy, contexts, fails>>
  BY <1>2
<1>31. \A d \in Cores \ {c} : pc[d] \notin Opening
  BY <1>2, Exclusion DEF Opening
<1>33. \A d \in Cores, n \in Names : fd[d][n] # None =>
           /\ fd[d][n] \in 1 .. Len(table) /\ fd[d][n] # i /\ table[fd[d][n]].file # o
           /\ table[fd[d][n]].file \in 1 .. 6
  <2> SUFFICES ASSUME NEW d \in Cores, NEW n \in Names, fd[d][n] # None
               PROVE  /\ fd[d][n] \in 1 .. Len(table) /\ fd[d][n] # i /\ table[fd[d][n]].file # o
                      /\ table[fd[d][n]].file \in 1 .. 6
    OBVIOUS
  <2>1. Own(d, n)
    BY <1>1 DEF OwnOK
  <2>2. d # c \/ n # Name(c)
    BY <1>5
  <2> QED
    BY <1>4, <2>1, <2>2 DEF Own
<1>10. TypesOK'
  <2>1. /\ pc' \in [Cores -> {"next"} \cup Opening \cup Writing \cup Closing]
        /\ at' \in [Cores -> Nat] /\ file' \in [Cores -> Contexts] /\ mine' \in [Cores -> Nat]
    BY <1>1, <1>2 DEF TypesOK, Contexts, None
  <2>2. owner' \in [Functions -> Cores \cup {Nobody}]
    BY <1>1, <1>2 DEF TypesOK
  <2> QED
    BY <1>1, <1>6, <1>8, <1>9, <1>32, <2>1, <2>2 DEF TypesOK
<1>11. OrderOK'
  BY <1>6
<1>12. PairedOK'
  <2>1. \A n \in Names : fd'[c][n] # None => fd[c][n] # None /\ Head(todo[c]) # Call("close", n)
    BY <1>5, <1>32 DEF Call
  <2>2. \A d \in Cores \ {c} : fd'[d] = fd[d]
    BY <1>7
  <2> QED
    BY <1>1, <1>2, <1>5, <2>1, <2>2, TailPaired
<1>13. PlaceOK'
  BY <1>1, <1>7 DEF PlaceOK
<1>14. LockOK'
  <2>1. \A d \in Cores \ {c} : pc'[d] = pc[d] /\ todo'[d] = todo[d]
    BY <1>7
  <2> QED
    BY <1>2, <1>7, <2>1, ReturnLock
<1>15. OpenOK'
  <2> SUFFICES ASSUME NEW d \in Cores PROVE OpenAt(d)'
    BY DEF OpenOK
  <2> QED
    BY <1>7, <1>31 DEF OpenAt, Opening
<1>16. GrowOK'
  BY <1>7, <1>31 DEF GrowOK, Opening
<1>17. UseOK'
  <2>1. ASSUME NEW d \in Cores, d # c PROVE UseAt(d)'
    <3>1. /\ pc'[d] = pc[d] /\ todo'[d] = todo[d] /\ at'[d] = at[d] /\ file'[d] = file[d]
          /\ mine'[d] = mine[d] /\ fd'[d] = fd[d]
      BY <1>7, <2>1
    <3>2. pc[d] \in {"clear_fs", "clear_file"} =>
            /\ array' = array /\ Len(table') = Len(table)
            /\ table'[at[d]].filesystem = table[at[d]].filesystem
      BY <1>1, <1>4, <1>7, <1>8, <1>32, <2>1 DEF UseOK, UseAt, InTable, ApartOK
    <3>3. pc[d] \in {"written", "fs_write", "fs_close"} => table'[at[d]].file = table[at[d]].file
      BY <1>1, <1>4, <1>7, <1>8, <1>32, <2>1, InUse
    <3>4. pc[d] = "clear_fs" => \A n \in Names : fd'[c][n] # at[d]
      BY <1>1, <1>4, <1>7, <1>8, <1>32, <2>1 DEF UseOK, UseAt
    <3> QED
      BY <2>1, <3>1, <3>2, <3>3, <3>4, UseKept
  <2>2. UseAt(c)'
    BY <1>7 DEF UseAt
  <2> QED
    BY <2>1, <2>2 DEF UseOK
<1>18. ApartOK'
  BY <1>7, <1>31 DEF ApartOK, Opening
<1>19. OwnOK'
  <2> SUFFICES ASSUME NEW d \in Cores, NEW n \in Names PROVE Own(d, n)'
    BY DEF OwnOK
  <2> QED
    BY <1>1, <1>7, <1>8, <1>9, <1>32, <1>33, OwnKept DEF OwnOK, Own
<1>20. SlotsReturn'
  <2> SUFFICES ASSUME NEW k \in DOMAIN table', table'[k].filesystem
               PROVE  \E d \in Cores : (\E n \in Names : fd'[d][n] = k) \/ (pc'[d] = "clear_fs" /\ at'[d] = k)
    BY DEF SlotsReturn, Vacant, At
  <2>1. DOMAIN table' = 1 .. Len(table) /\ DOMAIN table = 1 .. Len(table)
    BY <1>1, <1>8 DEF TypesOK
  <2>2. k # i
    BY <1>8
  <2>3. k \in DOMAIN table /\ table[k].filesystem
    BY <1>8, <2>1, <2>2
  <2>4. \A d \in Cores : pc[d] = "clear_fs" /\ at[d] = k => pc'[d] = "clear_fs" /\ at'[d] = k
    BY <1>4, <1>7
  <2> QED
    BY <1>32, <2>3, <2>4, SlotsKept
<1>21. ReachedOK'
  <2> SUFFICES ASSUME NEW q \in 1 .. 6, NEW d \in Cores, NEW n \in Names PROVE Reached(q, d, n)'
    BY DEF ReachedOK
  <2>1. CASE q = o
    BY <1>9, <2>1, Places DEF Reached
  <2>2. CASE q # o /\ d # c
    BY <1>7, <1>8, <1>9, <1>32, <1>33, <2>2, ReachedKept
  <2>3. CASE q # o /\ d = c
    <3>1. Reached(q, c, n)
      BY <1>1, <2>3 DEF ReachedOK
    <3>2. objects[q] = <<c, n>> => fd[c][n] # None /\ table[fd[c][n]].file = q
      BY <1>4, <2>3, <3>1 DEF Reached
    <3>3. fd[c][n] # None => table'[fd[c][n]] = table[fd[c][n]]
      BY <1>8, <1>33
    <3> QED
      BY <1>9, <1>32, <2>3, <3>2, <3>3 DEF Reached, None
  <2> QED
    BY <2>1, <2>2, <2>3
<1>22. CountOK'
  <2>1. Pending = {o} /\ Pending' = {}
    <3>1. Pending = {o}
      BY <1>2, <1>4, PendingIs
    <3>2. Pending' = {}
      BY <1>7, <1>31 DEF Pending, Opening
    <3> QED
      BY <3>1, <3>2
  <2>2. WithContext' = WithContext
    BY <1>4, <1>9, <2>1 DEF WithContext
  <2> QED
    BY <1>1, <1>32, <2>2 DEF CountOK
<1> QED
  BY <1>10, <1>11, <1>12, <1>13, <1>14, <1>15, <1>16, <1>17, <1>18, <1>19, <1>20, <1>21,
     <1>22 DEF FileInv

-----------------------------------------------------------------------------
(* The end of _close.                                                    *)

\* f_close frees the file and its context; the slot is still marked as in use.
LEMMA FileCloseKeeps ==
    ASSUME FileInv, NEW c \in Cores, FileClose(c), NobodyMeets'
    PROVE  FileInv'
<1>1. /\ TypesOK /\ OrderOK /\ PairedOK /\ PlaceOK /\ LockOK /\ OpenOK /\ GrowOK /\ UseOK
      /\ ApartOK /\ OwnOK /\ SlotsReturn /\ ReachedOK /\ CountOK
  BY DEF FileInv
<1>2. /\ pc[c] = "fs_close"
      /\ contexts' = contexts - 1
      /\ objects' = [objects EXCEPT ![file[c]] = Free]
      /\ mine' = [mine EXCEPT ![c] = array]
      /\ fd' = [fd EXCEPT ![c][Name(c)] = None]
      /\ pc' = [pc EXCEPT ![c] = "clear_fs"]
      /\ UNCHANGED <<owner, todo, at, file, table, array, copy, fails>>
  BY <1>1 DEF FileClose, ContextsLeft, At, Go
<1>3. PICK o, i : o = file[c] /\ i = at[c]
  OBVIOUS
<1>4. /\ i \in 1 .. Len(table) /\ table[i].filesystem /\ table[i].file = o /\ i # None
      /\ o \in 1 .. 6 /\ objects[o] = <<c, Name(c)>> /\ file[c] = o /\ at[c] = i
      /\ fd[c][Name(c)] = i /\ Name(c) \in Names
  BY <1>2, <1>3, InUse
<1>5. /\ todo[c] # <<>> /\ Head(todo[c]).function = "close" /\ todo' = todo
      /\ todo'[c] # <<>> /\ Head(todo'[c]).function = "close" /\ Name(c)' = Name(c)
  BY <1>1, <1>2 DEF PlaceOK, Opening, Writing, Name
<1>6. /\ pc'[c] = "clear_fs" /\ mine'[c] = array
      /\ pc' \in [Cores -> {"next"} \cup Opening \cup Writing \cup Closing] /\ mine' \in [Cores -> Nat]
  BY <1>1, <1>2 DEF TypesOK, Closing
<1>7. \A d \in Cores \ {c} :
          /\ pc'[d] = pc[d] /\ todo'[d] = todo[d] /\ at'[d] = at[d] /\ file'[d] = file[d]
          /\ mine'[d] = mine[d] /\ fd'[d] = fd[d] /\ Name(d)' = Name(d)
  BY <1>1, <1>2 DEF TypesOK, Name
<1>8. /\ fd' \in [Cores -> [Names -> Nat]] /\ fd'[c][Name(c)] = None
      /\ \A n \in Names : n # Name(c) => fd'[c][n] = fd[c][n]
  BY <1>1, <1>2, <1>4 DEF TypesOK, None
<1>9. /\ objects' \in [1 .. 6 -> Owners] /\ objects'[o] = Free
      /\ \A k \in 1 .. 6 : k # o => objects'[k] = objects[k]
  BY <1>1, <1>2, <1>4 DEF TypesOK, Owners
<1>32. UNCHANGED <<owner, todo, at, file, table, array, copy, fails>> /\ contexts' = contexts - 1
  BY <1>2
<1>31. \A d \in Cores \ {c} : pc[d] \notin Closing
  BY <1>2, Exclusion DEF Closing
<1>33. \A d \in Cores, n \in Names : fd[d][n] # None /\ (d # c \/ n # Name(c)) =>
           /\ fd[d][n] \in 1 .. Len(table) /\ fd[d][n] # i /\ table[fd[d][n]].file # o
           /\ table[fd[d][n]].file \in 1 .. 6
  <2> SUFFICES ASSUME NEW d \in Cores, NEW n \in Names, fd[d][n] # None, d # c \/ n # Name(c)
               PROVE  /\ fd[d][n] \in 1 .. Len(table) /\ fd[d][n] # i /\ table[fd[d][n]].file # o
                      /\ table[fd[d][n]].file \in 1 .. 6
    OBVIOUS
  <2>1. Own(d, n)
    BY <1>1 DEF OwnOK
  <2> QED
    BY <1>4, <2>1 DEF Own
<1>10. TypesOK'
  BY <1>1, <1>6, <1>8, <1>9, <1>32 DEF TypesOK
<1>11. OrderOK'
  BY <1>1, <1>32 DEF OrderOK
<1>12. PairedOK'
  <2>1. \A d \in Cores, n \in Names : fd'[d][n] # None => fd[d][n] # None
    BY <1>7, <1>8
  <2> QED
    BY <1>1, <1>5, <2>1 DEF PairedOK, None
<1>13. PlaceOK'
  <2>1. \A d \in Cores \ {c} : pc'[d] = pc[d] /\ todo'[d] = todo[d]
    BY <1>7
  <2>2. pc'[c] \in Closing /\ pc'[c] \notin Opening /\ pc'[c] \notin Writing /\ pc'[c] # "next"
    BY <1>6 DEF Opening, Writing, Closing
  <2>3. todo'[c] # <<>> /\ Head(todo'[c]).function = "close"
    BY <1>5
  <2> QED
    BY <1>1, <2>1, <2>2, <2>3 DEF PlaceOK
<1>14. LockOK'
  <2>1. Head(todo[c]).function = "close" /\ owner["close"] = c
    BY <1>1, <1>2, <1>5 DEF LockOK
  <2> QED
    BY <1>1, <1>5, <1>7, <1>32, <2>1 DEF LockOK
<1>15. OpenOK'
  <2> SUFFICES ASSUME NEW d \in Cores PROVE OpenAt(d)'
    BY DEF OpenOK
  <2>1. CASE d = c
    BY <1>6, <2>1 DEF OpenAt
  <2>2. CASE d # c
    <3>1. OpenAt(d)
      BY <1>1 DEF OpenOK
    <3>2. pc[d] \in {"fs_open", "done", "undo"} => file[d] # o
      BY <1>4, <2>2, <3>1 DEF OpenAt
    <3> QED
      BY <1>7, <1>9, <1>32, <2>2, <3>1, <3>2 DEF OpenAt, InTable
  <2> QED
    BY <2>1, <2>2
<1>16. GrowOK'
  BY <1>1, <1>6, <1>7, <1>32 DEF GrowOK
<1>17. UseOK'
  <2>1. ASSUME NEW d \in Cores, d # c PROVE UseAt(d)'
    <3>1. /\ pc'[d] = pc[d] /\ todo'[d] = todo[d] /\ at'[d] = at[d] /\ file'[d] = file[d]
          /\ mine'[d] = mine[d] /\ fd'[d] = fd[d]
      BY <1>7, <2>1
    <3>2. pc[d] \in {"clear_fs", "clear_file"} =>
            /\ array' = array /\ Len(table') = Len(table)
            /\ table'[at[d]].filesystem = table[at[d]].filesystem
      BY <1>31, <2>1 DEF Closing
    <3>3. pc[d] \in {"written", "fs_write", "fs_close"} => table'[at[d]].file = table[at[d]].file
      BY <1>1, <1>7, <1>32, <2>1, InUse
    <3>4. pc[d] = "clear_fs" => \A n \in Names : fd'[c][n] # at[d]
      BY <1>31, <2>1 DEF Closing
    <3> QED
      BY <2>1, <3>1, <3>2, <3>3, <3>4, UseKept
  <2>2. UseAt(c)'
    <3>1. \A e \in Cores, n \in Names : fd'[e][n] # i
      <4> SUFFICES ASSUME NEW e \in Cores, NEW n \in Names PROVE fd'[e][n] # i
        OBVIOUS
      <4>1. CASE e = c /\ n = Name(c)
        BY <1>4, <1>8, <4>1
      <4>2. CASE e # c \/ n # Name(c)
        <5>1. fd'[e][n] = fd[e][n]
          BY <1>7, <1>8, <4>2
        <5> QED
          BY <1>4, <1>33, <4>2, <5>1
      <4> QED
        BY <4>1, <4>2
    <3>2. at'[c] = i /\ table'[i].filesystem /\ i \in 1 .. Len(table') /\ mine'[c] = array'
      BY <1>4, <1>6, <1>32
    <3>3. fd'[c][Name(c)'] = None
      BY <1>5, <1>8
    <3> QED
      BY <1>6, <3>1, <3>2, <3>3 DEF UseAt, InTable
  <2> QED
    BY <2>1, <2>2 DEF UseOK
<1>18. ApartOK'
  BY <1>1, <1>6, <1>7, <1>32 DEF ApartOK
<1>19. OwnOK'
  <2> SUFFICES ASSUME NEW d \in Cores, NEW n \in Names PROVE Own(d, n)'
    BY DEF OwnOK
  <2>1. CASE d = c /\ n = Name(c)
    BY <1>8, <2>1 DEF Own, None
  <2>2. CASE d # c \/ n # Name(c)
    <3>1. fd'[d][n] = fd[d][n]
      BY <1>7, <1>8, <2>2
    <3>2. fd[d][n] # None =>
            /\ fd[d][n] \in 1 .. Len(table') /\ table'[fd[d][n]] = table[fd[d][n]]
            /\ objects'[table[fd[d][n]].file] = objects[table[fd[d][n]].file]
      BY <1>9, <1>32, <1>33, <2>2
    <3> QED
      BY <3>1, <3>2, OwnKept
  <2> QED
    BY <2>1, <2>2
<1>20. SlotsReturn'
  <2> SUFFICES ASSUME NEW k \in DOMAIN table', table'[k].filesystem
               PROVE  \E d \in Cores : (\E n \in Names : fd'[d][n] = k) \/ (pc'[d] = "clear_fs" /\ at'[d] = k)
    BY DEF SlotsReturn, Vacant, At
  <2>1. CASE k = i
    BY <1>4, <1>6, <1>32, <2>1
  <2>2. CASE k # i
    <3>1. k \in DOMAIN table /\ table[k].filesystem
      BY <1>32
    <3>2. \A d \in Cores, n \in Names : fd[d][n] = k => fd'[d][n] = k
      <4>1. k # None
        BY <1>1, <3>1 DEF TypesOK, None
      <4> QED
        BY <1>4, <1>7, <1>8, <2>2, <4>1
    <3>3. \A d \in Cores : pc[d] = "clear_fs" /\ at[d] = k => pc'[d] = "clear_fs" /\ at'[d] = k
      BY <1>2, <1>7
    <3> QED
      BY <3>1, <3>2, <3>3, SlotsKept
  <2> QED
    BY <2>1, <2>2
<1>21. ReachedOK'
  <2> SUFFICES ASSUME NEW q \in 1 .. 6, NEW d \in Cores, NEW n \in Names PROVE Reached(q, d, n)'
    BY DEF ReachedOK
  <2>1. CASE q = o
    BY <1>9, <2>1, Places DEF Reached
  <2>2. CASE q # o /\ d = c /\ n = Name(c)
    <3>1. Reached(q, c, n)
      BY <1>1, <2>2 DEF ReachedOK
    <3>2. objects[q] # <<c, n>>
      BY <1>2, <1>4, <2>2, <3>1 DEF Reached
    <3> QED
      BY <1>9, <2>2, <3>2 DEF Reached
  <2>3. CASE q # o /\ ~(d = c /\ n = Name(c))
    <3>1. fd[d][n] # None => fd'[d][n] = fd[d][n] /\ table'[fd[d][n]].file = table[fd[d][n]].file
      BY <1>7, <1>8, <1>32, <2>3
    <3>2. pc[d] \in {"fs_open", "done", "undo"} =>
            pc'[d] \in {"fs_open", "done", "undo"} /\ file'[d] = file[d] /\ todo'[d] = todo[d]
      BY <1>2, <1>7
    <3>3. objects'[q] = objects[q]
      BY <1>9, <2>3
    <3> QED
      BY <3>1, <3>2, <3>3, ReachedKept
  <2> QED
    BY <2>1, <2>2, <2>3
<1>22. CountOK'
  <2>1. Pending' = Pending
    <3>1. \A d \in Cores : (pc'[d] \in {"fs_open", "undo"} <=> pc[d] \in {"fs_open", "undo"})
      BY <1>2, <1>6, <1>7
    <3> QED
      BY <1>32, <3>1 DEF Pending
  <2>2. o \notin Pending
    <3>1. \A d \in Cores : pc[d] \in {"fs_open", "undo"} => d # c /\ objects[file[d]] = <<d, Name(d)>>
      BY <1>1, <1>2 DEF OpenOK, OpenAt
    <3>2. \A d \in Cores : pc[d] \in {"fs_open", "undo"} => file[d] # o
      BY <1>4, <3>1
    <3> QED
      BY <3>2 DEF Pending
  <2>3. o \in WithContext /\ WithContext' = WithContext \ {o}
    BY <1>4, <1>9, <2>1, <2>2, Places DEF WithContext
  <2>4. PICK W : W = WithContext
    OBVIOUS
  <2>5. IsFiniteSet(W) /\ Cardinality(W) \in Nat /\ o \in W /\ WithContext' = W \ {o}
    BY <2>3, <2>4, ContextsFinite
  <2>6. Cardinality(W \ {o}) = Cardinality(W) - 1
    BY <2>5, FS_RemoveElement
  <2>7. contexts \in Int /\ fails \in Nat /\ contexts =< fails + Cardinality(W)
    BY <1>1, <2>4 DEF TypesOK, CountOK
  <2> QED
    BY <1>32, <2>5, <2>6, <2>7 DEF CountOK
<1> QED
  BY <1>10, <1>11, <1>12, <1>13, <1>14, <1>15, <1>16, <1>17, <1>18, <1>19, <1>20, <1>21,
     <1>22 DEF FileInv

\* The first store of a close: from here on the slot may be taken.
LEMMA ClearFilesystemKeeps ==
    ASSUME FileInv, NEW c \in Cores, ClearFilesystem(c), NobodyMeets'
    PROVE  FileInv'
<1>1. /\ TypesOK /\ OrderOK /\ PairedOK /\ PlaceOK /\ LockOK /\ OpenOK /\ GrowOK /\ UseOK
      /\ ApartOK /\ OwnOK /\ SlotsReturn /\ ReachedOK /\ CountOK
  BY DEF FileInv
<1>2. /\ pc[c] = "clear_fs"
      /\ mine[c] = array => table' = [table EXCEPT ![at[c]].filesystem = FALSE]
      /\ pc' = [pc EXCEPT ![c] = "clear_file"]
      /\ UNCHANGED <<owner, todo, fd, at, file, mine, array, copy, objects, contexts, fails>>
  BY <1>1 DEF ClearFilesystem, Stored, At, Go
<1>3. PICK i : i = at[c]
  OBVIOUS
<1>4. /\ i \in 1 .. Len(table) /\ table[i].filesystem /\ mine[c] = array /\ fd[c][Name(c)] = None
      /\ \A d \in Cores, n \in Names : fd[d][n] # i
  BY <1>1, <1>2, <1>3 DEF UseOK, UseAt, InTable
<1>5. /\ todo[c] # <<>> /\ Head(todo[c]).function = "close" /\ todo' = todo
      /\ todo'[c] # <<>> /\ Head(todo'[c]).function = "close" /\ Name(c)' = Name(c)
  BY <1>1, <1>2 DEF PlaceOK, Opening, Writing, Name
<1>6. /\ pc'[c] = "clear_file"
      /\ pc' \in [Cores -> {"next"} \cup Opening \cup Writing \cup Closing]
  BY <1>1, <1>2 DEF TypesOK, Closing
<1>7. \A d \in Cores \ {c} :
          /\ pc'[d] = pc[d] /\ todo'[d] = todo[d] /\ at'[d] = at[d] /\ file'[d] = file[d]
          /\ mine'[d] = mine[d] /\ fd'[d] = fd[d] /\ Name(d)' = Name(d)
  BY <1>1, <1>2 DEF TypesOK, Name
<1>8. /\ table' \in Seq(Slots) /\ Len(table') = Len(table)
      /\ table'[i].filesystem = FALSE /\ table'[i].file = table[i].file
      /\ \A k \in 1 .. Len(table) : k # i => table'[k] = table[k]
  <2>1. table \in Seq(Slots) /\ table[i] \in Slots /\ i \in 1 .. Len(table)
    BY <1>1, <1>4 DEF TypesOK
  <2>2. PICK s : s = [table[i] EXCEPT !.filesystem = FALSE]
    OBVIOUS
  <2>3. s \in Slots /\ s.file = table[i].file
    BY <2>1, <2>2 DEF Slots
  <2>4. s.filesystem = FALSE
    BY <2>1, <2>2 DEF Slots
  <2>5. table' = [table EXCEPT ![i] = s]
    BY <1>2, <1>3, <1>4, <2>2
  <2>6. /\ table' \in Seq(Slots) /\ Len(table') = Len(table) /\ table'[i] = s
        /\ \A k \in 1 .. Len(table) : k # i => table'[k] = table[k]
    BY <2>1, <2>3, <2>5, StoredSlot
  <2>7. table'[i].filesystem = FALSE
    BY <2>4, <2>6
  <2> QED
    BY <1>4, <2>3, <2>6, <2>7
<1>32. UNCHANGED <<owner, todo, fd, at, file, mine, array, copy, objects, contexts, fails>>
  BY <1>2
<1>33. \A d \in Cores \ {c} : pc[d] \in {"slot", "fs_open", "done", "undo"} => at[d] # i /\ at[d] \in 1 .. Len(table)
  BY <1>1, <1>4 DEF OpenOK, OpenAt, InTable
<1>31. \A d \in Cores \ {c} : pc[d] \notin Closing
  BY <1>2, Exclusion DEF Closing
<1>10. TypesOK'
  BY <1>1, <1>6, <1>8, <1>32 DEF TypesOK
<1>11. OrderOK'
  BY <1>1, <1>32 DEF OrderOK
<1>12. PairedOK'
  BY <1>1, <1>32 DEF PairedOK
<1>13. PlaceOK'
  <2>1. \A d \in Cores \ {c} : pc'[d] = pc[d] /\ todo'[d] = todo[d]
    BY <1>7
  <2>2. pc'[c] \in Closing /\ pc'[c] \notin Opening /\ pc'[c] \notin Writing /\ pc'[c] # "next"
    BY <1>6 DEF Opening, Writing, Closing
  <2>3. todo'[c] # <<>> /\ Head(todo'[c]).function = "close"
    BY <1>5
  <2> QED
    BY <1>1, <2>1, <2>2, <2>3 DEF PlaceOK
<1>14. LockOK'
  <2>1. Head(todo[c]).function = "close" /\ owner["close"] = c
    BY <1>1, <1>2, <1>5 DEF LockOK
  <2> QED
    BY <1>1, <1>5, <1>7, <1>32, <2>1 DEF LockOK
<1>15. OpenOK'
  <2> SUFFICES ASSUME NEW d \in Cores PROVE OpenAt(d)'
    BY DEF OpenOK
  <2>1. CASE d = c
    BY <1>6, <2>1 DEF OpenAt
  <2>2. CASE d # c
    <3>1. OpenAt(d) /\ (pc[d] \in {"slot", "fs_open", "done", "undo"} => table'[at[d]] = table[at[d]])
      BY <1>1, <1>8, <1>33, <2>2 DEF OpenOK
    <3> QED
      BY <1>7, <1>8, <1>32, <2>2, <3>1 DEF OpenAt, InTable
  <2> QED
    BY <2>1, <2>2
<1>16. GrowOK'
  <2>1. \A d \in Cores : pc'[d] # "grow"
    BY <1>6, Places DEF NobodyMeets, Meets, At
  <2> QED
    BY <2>1 DEF GrowOK
<1>17. UseOK'
  <2>1. ASSUME NEW d \in Cores, d # c PROVE UseAt(d)'
    <3>1. /\ pc'[d] = pc[d] /\ todo'[d] = todo[d] /\ at'[d] = at[d] /\ file'[d] = file[d]
          /\ mine'[d] = mine[d] /\ fd'[d] = fd[d]
      BY <1>7, <2>1
    <3>2. pc[d] \in {"clear_fs", "clear_file"} =>
            /\ array' = array /\ Len(table') = Len(table)
            /\ table'[at[d]].filesystem = table[at[d]].filesystem
      BY <1>31, <2>1 DEF Closing
    <3>3. pc[d] \in {"written", "fs_write", "fs_close"} => table'[at[d]].file = table[at[d]].file
      <4>1. pc[d] \in {"written", "fs_write", "fs_close"} => at[d] \in 1 .. Len(table)
        BY <2>1, InUse
      <4> QED
        BY <1>8, <4>1
    <3>4. pc[d] = "clear_fs" => \A n \in Names : fd'[c][n] # at[d]
      BY <1>31, <2>1 DEF Closing
    <3> QED
      BY <2>1, <3>1, <3>2, <3>3, <3>4, UseKept
  <2>2. UseAt(c)'
    <3>1. at'[c] = i /\ table'[i].filesystem = FALSE /\ i \in 1 .. Len(table') /\ mine'[c] = array'
      BY <1>3, <1>4, <1>8, <1>32
    <3>2. fd'[c][Name(c)'] = None
      BY <1>4, <1>5, <1>32
    <3>3. ~table'[at'[c]].filesystem
      BY <3>1
    <3> QED
      BY <1>6, <3>1, <3>2, <3>3 DEF UseAt, InTable
  <2> QED
    BY <2>1, <2>2 DEF UseOK
<1>18. ApartOK'
  BY <1>3, <1>6, <1>7, <1>31, <1>32, <1>33 DEF ApartOK, Closing
<1>19. OwnOK'
  <2> SUFFICES ASSUME NEW d \in Cores, NEW n \in Names PROVE Own(d, n)'
    BY DEF OwnOK
  <2> QED
    <3>1. fd'[d][n] = fd[d][n] /\ fd[d][n] # i
      BY <1>4, <1>32
    <3>2. Own(d, n)
      BY <1>1 DEF OwnOK
    <3>3. fd[d][n] # None =>
            /\ fd[d][n] \in 1 .. Len(table') /\ table'[fd[d][n]] = table[fd[d][n]]
            /\ objects'[table[fd[d][n]].file] = objects[table[fd[d][n]].file]
      BY <1>8, <1>32, <3>1, <3>2 DEF Own
    <3> QED
      BY <3>1, <3>3, OwnKept
<1>20. SlotsReturn'
  <2> SUFFICES ASSUME NEW k \in DOMAIN table', table'[k].filesystem
               PROVE  \E d \in Cores : (\E n \in Names : fd'[d][n] = k) \/ (pc'[d] = "clear_fs" /\ at'[d] = k)
    BY DEF SlotsReturn, Vacant, At
  <2>1. DOMAIN table' = 1 .. Len(table) /\ DOMAIN table = 1 .. Len(table)
    BY <1>1, <1>8 DEF TypesOK
  <2>2. k # i
    BY <1>8
  <2>3. k \in DOMAIN table /\ table[k].filesystem
    BY <1>8, <2>1, <2>2
  <2>4. \A d \in Cores : pc[d] = "clear_fs" /\ at[d] = k => pc'[d] = "clear_fs" /\ at'[d] = k
    BY <1>3, <1>7, <2>2
  <2> QED
    BY <1>32, <2>3, <2>4, SlotsKept
<1>21. ReachedOK'
  <2> SUFFICES ASSUME NEW q \in 1 .. 6, NEW d \in Cores, NEW n \in Names PROVE Reached(q, d, n)'
    BY DEF ReachedOK
  <2>1. Own(d, n)
    BY <1>1 DEF OwnOK
  <2>2. fd[d][n] # None => fd'[d][n] = fd[d][n] /\ table'[fd[d][n]].file = table[fd[d][n]].file
    BY <1>4, <1>8, <1>32, <2>1 DEF Own
  <2>3. pc[d] \in {"fs_open", "done", "undo"} =>
            pc'[d] \in {"fs_open", "done", "undo"} /\ file'[d] = file[d] /\ todo'[d] = todo[d]
    BY <1>2, <1>7
  <2> QED
    BY <1>32, <2>2, <2>3, ReachedKept
<1>22. CountOK'
  <2>1. \A d \in Cores : (pc'[d] \in {"fs_open", "undo"} <=> pc[d] \in {"fs_open", "undo"})
    BY <1>2, <1>6, <1>7
  <2>2. Pending' = Pending
    BY <1>32, <2>1 DEF Pending
  <2> QED
    BY <1>1, <1>32, <2>2 DEF CountOK, WithContext
<1> QED
  BY <1>10, <1>11, <1>12, <1>13, <1>14, <1>15, <1>16, <1>17, <1>18, <1>19, <1>20, <1>21,
     <1>22 DEF FileInv

\* The second store of a close: nobody has taken the slot between the two.
LEMMA ClearFileKeeps ==
    ASSUME FileInv, NEW c \in Cores, ClearFile(c), NobodyMeets'
    PROVE  FileInv'
<1>1. /\ TypesOK /\ OrderOK /\ PairedOK /\ PlaceOK /\ LockOK /\ OpenOK /\ GrowOK /\ UseOK
      /\ ApartOK /\ OwnOK /\ SlotsReturn /\ ReachedOK /\ CountOK
  BY DEF FileInv
<1>2. /\ pc[c] = "clear_file"
      /\ pc' = [pc EXCEPT ![c] = "next"] /\ todo' = [todo EXCEPT ![c] = Tail(@)]
      /\ at' = [at EXCEPT ![c] = None] /\ file' = [file EXCEPT ![c] = None]
      /\ mine' = [mine EXCEPT ![c] = 0]
      /\ owner' = [owner EXCEPT ![Head(todo[c]).function] = Nobody]
      /\ mine[c] = array => table' = [table EXCEPT ![at[c]].file = None]
      /\ UNCHANGED <<fd, array, copy, objects, contexts, fails>>
  BY <1>1 DEF ClearFile, Stored, Return, Exit, Forget, At, Go
<1>3. PICK i : i = at[c]
  OBVIOUS
<1>4. i \in 1 .. Len(table) /\ table[i].filesystem = FALSE /\ mine[c] = array /\ fd[c][Name(c)] = None
  <2>1. i \in 1 .. Len(table) /\ ~table[i].filesystem /\ mine[c] = array /\ fd[c][Name(c)] = None
    BY <1>1, <1>2, <1>3 DEF UseOK, UseAt, InTable
  <2>2. table[i] \in Slots
    BY <1>1, <2>1 DEF TypesOK
  <2> QED
    BY <2>1, <2>2 DEF Slots
<1>5. todo[c] # <<>> /\ Head(todo[c]) = Call("close", Name(c))
  <2>1. todo[c] # <<>> /\ Head(todo[c]).function = "close" /\ Head(todo[c]) \in Calls
    BY <1>1, <1>2, NameOf DEF PlaceOK, Opening, Writing
  <2> QED
    BY <2>1 DEF Calls, Name, Call
<1>6. todo' \in [Cores -> Seq(Calls)] /\ OrderOK' /\ \A d \in Cores \ {c} : Name(d)' = Name(d)
  BY <1>1, <1>2, <1>5, TailOrder DEF Name
<1>7. /\ pc'[c] = "next"
      /\ \A d \in Cores \ {c} :
            /\ pc'[d] = pc[d] /\ todo'[d] = todo[d] /\ at'[d] = at[d] /\ file'[d] = file[d]
            /\ mine'[d] = mine[d] /\ fd'[d] = fd[d]
  BY <1>1, <1>2 DEF TypesOK
<1>8. /\ table' \in Seq(Slots) /\ Len(table') = Len(table) /\ table'[i].filesystem = FALSE
      /\ \A k \in 1 .. Len(table) : k # i => table'[k] = table[k]
  <2>1. table \in Seq(Slots) /\ None \in Contexts /\ table' = [table EXCEPT ![i].file = None]
    BY <1>1, <1>2, <1>3, <1>4 DEF TypesOK, Contexts, None
  <2> QED
    BY <1>4, <2>1, StoredFile
<1>9. UNCHANGED <<fd, array, copy, objects, contexts, fails>>
  BY <1>2
<1>31. \A d \in Cores \ {c} : pc[d] \notin Closing
  BY <1>2, Exclusion DEF Closing
<1>32. \A d \in Cores \ {c} : pc[d] \in {"slot", "fs_open", "done", "undo"} =>
           at[d] # i /\ at[d] \in 1 .. Len(table)
  BY <1>1, <1>2, <1>3 DEF OpenOK, OpenAt, InTable, ApartOK
<1>33. \A d \in Cores, n \in Names : fd[d][n] # None => fd[d][n] \in 1 .. Len(table) /\ fd[d][n] # i
  <2> SUFFICES ASSUME NEW d \in Cores, NEW n \in Names, fd[d][n] # None
               PROVE  fd[d][n] \in 1 .. Len(table) /\ fd[d][n] # i
    OBVIOUS
  <2>1. Own(d, n)
    BY <1>1 DEF OwnOK
  <2> QED
    BY <1>4, <2>1 DEF Own
<1>10. TypesOK'
  <2>1. /\ pc' \in [Cores -> {"next"} \cup Opening \cup Writing \cup Closing]
        /\ at' \in [Cores -> Nat] /\ file' \in [Cores -> Contexts] /\ mine' \in [Cores -> Nat]
    BY <1>1, <1>2 DEF TypesOK, Contexts, None
  <2>2. owner' \in [Functions -> Cores \cup {Nobody}]
    BY <1>1, <1>2 DEF TypesOK
  <2> QED
    BY <1>1, <1>6, <1>8, <1>9, <2>1, <2>2 DEF TypesOK
<1>11. OrderOK'
  BY <1>6
<1>12. PairedOK'
  <2>1. \A n \in Names : fd'[c][n] # None => fd[c][n] # None /\ Head(todo[c]) # Call("close", n)
    BY <1>4, <1>5, <1>9 DEF Call
  <2>2. \A d \in Cores \ {c} : fd'[d] = fd[d]
    BY <1>7
  <2> QED
    BY <1>1, <1>2, <1>5, <2>1, <2>2, TailPaired
<1>13. PlaceOK'
  BY <1>1, <1>7 DEF PlaceOK
<1>14. LockOK'
  <2>1. \A d \in Cores \ {c} : pc'[d] = pc[d] /\ todo'[d] = todo[d]
    BY <1>7
  <2> QED
    BY <1>2, <1>7, <2>1, ReturnLock
<1>15. OpenOK'
  <2> SUFFICES ASSUME NEW d \in Cores PROVE OpenAt(d)'
    BY DEF OpenOK
  <2>1. CASE d = c
    BY <1>7, <2>1 DEF OpenAt
  <2>2. CASE d # c
    <3>1. OpenAt(d) /\ (pc[d] \in {"slot", "fs_open", "done", "undo"} => table'[at[d]] = table[at[d]])
      BY <1>1, <1>8, <1>32, <2>2 DEF OpenOK
    <3> QED
      BY <1>6, <1>7, <1>8, <1>9, <2>2, <3>1 DEF OpenAt, InTable
  <2> QED
    BY <2>1, <2>2
<1>16. GrowOK'
  <2>1. \A d \in Cores : pc'[d] # "grow"
    <3>1. NobodyMeets
      BY DEF FileInv
    <3> QED
      BY <1>2, <1>7, <3>1, Places DEF NobodyMeets, Meets, At
  <2> QED
    BY <2>1 DEF GrowOK
<1>17. UseOK'
  <2>1. ASSUME NEW d \in Cores, d # c PROVE UseAt(d)'
    <3>1. /\ pc'[d] = pc[d] /\ todo'[d] = todo[d] /\ at'[d] = at[d] /\ file'[d] = file[d]
          /\ mine'[d] = mine[d] /\ fd'[d] = fd[d]
      BY <1>7, <2>1
    <3>2. pc[d] \in {"clear_fs", "clear_file"} =>
            /\ array' = array /\ Len(table') = Len(table)
            /\ table'[at[d]].filesystem = table[at[d]].filesystem
      BY <1>31, <2>1 DEF Closing
    <3>3. pc[d] \in {"written", "fs_write", "fs_close"} => table'[at[d]].file = table[at[d]].file
      <4>1. pc[d] \in {"written", "fs_write", "fs_close"} =>
              at[d] \in 1 .. Len(table) /\ at[d] # i
        BY <1>4, <2>1, InUse
      <4> QED
        BY <1>8, <4>1
    <3>4. pc[d] = "clear_fs" => \A n \in Names : fd'[c][n] # at[d]
      BY <1>31, <2>1 DEF Closing
    <3> QED
      BY <2>1, <3>1, <3>2, <3>3, <3>4, UseKept
  <2>2. UseAt(c)'
    BY <1>7 DEF UseAt
  <2> QED
    BY <2>1, <2>2 DEF UseOK
<1>18. ApartOK'
  BY <1>7, <1>31 DEF ApartOK, Closing
<1>19. OwnOK'
  <2> SUFFICES ASSUME NEW d \in Cores, NEW n \in Names PROVE Own(d, n)'
    BY DEF OwnOK
  <2> QED
    <3>1. fd'[d][n] = fd[d][n]
      BY <1>9
    <3>2. fd[d][n] # None =>
            /\ fd[d][n] \in 1 .. Len(table') /\ table'[fd[d][n]] = table[fd[d][n]]
            /\ objects'[table[fd[d][n]].file] = objects[table[fd[d][n]].file]
      BY <1>8, <1>9, <1>33
    <3> QED
      BY <3>1, <3>2, OwnKept
<1>20. SlotsReturn'
  <2> SUFFICES ASSUME NEW k \in DOMAIN table', table'[k].filesystem
               PROVE  \E d \in Cores : (\E n \in Names : fd'[d][n] = k) \/ (pc'[d] = "clear_fs" /\ at'[d] = k)
    BY DEF SlotsReturn, Vacant, At
  <2>1. DOMAIN table' = 1 .. Len(table) /\ DOMAIN table = 1 .. Len(table)
    BY <1>1, <1>8 DEF TypesOK
  <2>2. k # i
    BY <1>8
  <2>3. k \in DOMAIN table /\ table[k].filesystem
    BY <1>8, <2>1, <2>2
  <2>4. \A d \in Cores : pc[d] = "clear_fs" /\ at[d] = k => pc'[d] = "clear_fs" /\ at'[d] = k
    BY <1>2, <1>7
  <2> QED
    BY <1>9, <2>3, <2>4, SlotsKept
<1>21. ReachedOK'
  <2> SUFFICES ASSUME NEW q \in 1 .. 6, NEW d \in Cores, NEW n \in Names PROVE Reached(q, d, n)'
    BY DEF ReachedOK
  <2>1. fd[d][n] # None => fd'[d][n] = fd[d][n] /\ table'[fd[d][n]].file = table[fd[d][n]].file
    BY <1>8, <1>9, <1>33
  <2>2. pc[d] \in {"fs_open", "done", "undo"} =>
            pc'[d] \in {"fs_open", "done", "undo"} /\ file'[d] = file[d] /\ todo'[d] = todo[d]
    BY <1>2, <1>7
  <2> QED
    BY <1>9, <2>1, <2>2, ReachedKept
<1>22. CountOK'
  <2>1. \A d \in Cores : (pc'[d] \in {"fs_open", "undo"} <=> pc[d] \in {"fs_open", "undo"})
                         /\ (pc[d] \in {"fs_open", "undo"} => file'[d] = file[d])
    BY <1>2, <1>7
  <2>2. Pending' = Pending
    BY <2>1 DEF Pending
  <2> QED
    BY <1>1, <1>9, <2>2 DEF CountOK, WithContext
<1> QED
  BY <1>10, <1>11, <1>12, <1>13, <1>14, <1>15, <1>16, <1>17, <1>18, <1>19, <1>20, <1>21,
     <1>22 DEF FileInv

-----------------------------------------------------------------------------
(* The slot that _assign_file_descriptor takes.                           *)

\* In the table as it is, or in a larger one that begins with it.
LEMMA TakenKeeps ==
    ASSUME FileInv, NEW c \in Cores, NEW i \in 1 .. Len(table'),
           pc[c] \in {"open", "grow"}, pc' = [pc EXCEPT ![c] = "slot"], at' = [at EXCEPT ![c] = i],
           table' \in Seq(Slots), copy' \in Seq(Slots), array' \in Nat,
           table'[i].filesystem = FALSE, Len(table) =< Len(table'),
           \A k \in 1 .. Len(table) : table'[k] = table[k],
           \A k \in 1 .. Len(table') : k > Len(table) => table'[k].filesystem = FALSE,
           \A d \in Cores \ {c} : pc[d] \in {"clear_fs", "clear_file"} =>
               array' = array /\ Len(table') = Len(table),
           UNCHANGED <<owner, todo, fd, file, mine, objects, contexts, fails>>, NobodyMeets'
    PROVE  FileInv'
<1>1. /\ TypesOK /\ OrderOK /\ PairedOK /\ PlaceOK /\ LockOK /\ OpenOK /\ GrowOK /\ UseOK
      /\ ApartOK /\ OwnOK /\ SlotsReturn /\ ReachedOK /\ CountOK
  BY DEF FileInv
<1>2. /\ pc[c] \in {"open", "grow"} /\ pc' = [pc EXCEPT ![c] = "slot"]
      /\ at' = [at EXCEPT ![c] = i]
      /\ table' \in Seq(Slots) /\ copy' \in Seq(Slots) /\ array' \in Nat
      /\ UNCHANGED <<owner, todo, fd, file, mine, objects, contexts, fails>>
  BY <1>1 DEF TypesOK
<1>3. pc[c] \in {"open", "grow"}
  OBVIOUS
<1>4. /\ pc'[c] = "slot" /\ at'[c] = i
      /\ \A d \in Cores \ {c} : pc'[d] = pc[d] /\ at'[d] = at[d]
  BY <1>1, <1>2 DEF TypesOK
<1>5. UNCHANGED <<owner, todo, fd, file, mine, objects, contexts, fails>>
  OBVIOUS
<1>6. at' \in [Cores -> Nat]
  BY <1>1, <1>2 DEF TypesOK
<1>7. \A k \in 1 .. Len(table) : table'[k] = table[k] /\ k \in 1 .. Len(table')
  <2>1. Len(table) \in Nat /\ Len(table') \in Nat
    BY <1>1, <1>2 DEF TypesOK
  <2> QED
    BY <2>1
<1>8. \A d \in Cores \ {c} :
          /\ pc'[d] = pc[d] /\ todo'[d] = todo[d] /\ at'[d] = at[d] /\ file'[d] = file[d]
          /\ mine'[d] = mine[d] /\ fd'[d] = fd[d]
  BY <1>4, <1>5
<1>31. \A d \in Cores \ {c} : pc[d] \notin Opening
  BY <1>2, Exclusion DEF Opening
<1>33. \A d \in Cores, n \in Names : fd[d][n] # None => fd[d][n] \in 1 .. Len(table)
  BY <1>1 DEF OwnOK, Own
<1>10. TypesOK'
  <2>1. pc' \in [Cores -> {"next"} \cup Opening \cup Writing \cup Closing]
    BY <1>1, <1>2 DEF TypesOK, Opening
  <2> QED
    BY <1>1, <1>2, <1>5, <1>6, <2>1 DEF TypesOK
<1>11. OrderOK'
  BY <1>1, <1>5 DEF OrderOK
<1>12. PairedOK'
  BY <1>1, <1>5 DEF PairedOK
<1>13. PlaceOK'
  <2>1. pc[c] \in Opening /\ pc'[c] \in Opening
    BY <1>3, <1>4 DEF Opening
  <2> QED
    BY <1>1, <1>4, <1>5, <2>1 DEF PlaceOK, Opening
<1>14. LockOK'
  <2>1. owner[Head(todo[c]).function] = c
    BY <1>1, <1>3 DEF LockOK
  <2> QED
    BY <1>1, <1>4, <1>5, <2>1 DEF LockOK
<1>15. OpenOK'
  <2>1. \A d \in Cores \ {c} : OpenAt(d)'
    BY <1>8, <1>31 DEF OpenAt, Opening
  <2>2. OpenAt(c)'
    BY <1>4 DEF OpenAt, InTable
  <2> QED
    BY <2>1, <2>2 DEF OpenOK
<1>16. GrowOK'
  BY <1>4, <1>31 DEF GrowOK, Opening
<1>17. UseOK'
  <2>1. ASSUME NEW d \in Cores, d # c PROVE UseAt(d)'
    <3>1. /\ pc'[d] = pc[d] /\ todo'[d] = todo[d] /\ at'[d] = at[d] /\ file'[d] = file[d]
          /\ mine'[d] = mine[d] /\ fd'[d] = fd[d]
      BY <1>8, <2>1
    <3>2. pc[d] \in {"clear_fs", "clear_file"} =>
            /\ array' = array /\ Len(table') = Len(table)
            /\ table'[at[d]].filesystem = table[at[d]].filesystem
      <4>1. pc[d] \in {"clear_fs", "clear_file"} => at[d] \in 1 .. Len(table)
        BY <1>1 DEF UseOK, UseAt, InTable
      <4> QED
        BY <1>7, <2>1, <4>1
    <3>3. pc[d] \in {"written", "fs_write", "fs_close"} => table'[at[d]].file = table[at[d]].file
      <4>1. pc[d] \in {"written", "fs_write", "fs_close"} => at[d] \in 1 .. Len(table)
        BY <2>1, InUse
      <4> QED
        BY <1>7, <4>1
    <3>4. pc[d] = "clear_fs" => \A n \in Names : fd'[c][n] # at[d]
      BY <1>1, <1>5, <2>1 DEF UseOK, UseAt
    <3> QED
      BY <2>1, <3>1, <3>2, <3>3, <3>4, UseKept
  <2>2. UseAt(c)'
    BY <1>4 DEF UseAt
  <2> QED
    BY <2>1, <2>2 DEF UseOK
<1>18. ApartOK'
  <2> SUFFICES ASSUME NEW d \in Cores, pc'[d] = "clear_file" PROVE at'[c] # at'[d]
    BY <1>4, <1>31 DEF ApartOK, Opening
  <2> QED
    BY <1>4, Places DEF NobodyMeets, Meets, At
<1>19. OwnOK'
  <2> SUFFICES ASSUME NEW d \in Cores, NEW n \in Names PROVE Own(d, n)'
    BY DEF OwnOK
  <2> QED
    <3>1. fd'[d][n] = fd[d][n]
      BY <1>5
    <3>2. fd[d][n] # None =>
            /\ fd[d][n] \in 1 .. Len(table') /\ table'[fd[d][n]] = table[fd[d][n]]
            /\ objects'[table[fd[d][n]].file] = objects[table[fd[d][n]].file]
      BY <1>5, <1>7, <1>33
    <3> QED
      BY <3>1, <3>2, OwnKept
<1>20. SlotsReturn'
  <2> SUFFICES ASSUME NEW k \in DOMAIN table', table'[k].filesystem
               PROVE  \E d \in Cores : (\E n \in Names : fd'[d][n] = k) \/ (pc'[d] = "clear_fs" /\ at'[d] = k)
    BY DEF SlotsReturn, Vacant, At
  <2>1. DOMAIN table' = 1 .. Len(table') /\ DOMAIN table = 1 .. Len(table)
         /\ Len(table) \in Nat /\ Len(table') \in Nat
    BY <1>1, <1>2 DEF TypesOK
  <2>2. k \in 1 .. Len(table') /\ ~(k > Len(table))
    BY <2>1
  <2>3. k \in DOMAIN table
    <3>1. PICK l \in Nat, m \in Nat : l = Len(table) /\ m = Len(table')
      BY <2>1
    <3>2. k \in 1 .. m /\ ~(k > l)
      BY <2>2, <3>1
    <3>3. k \in 1 .. l
      BY ONLY <3>1, <3>2, l \in Nat, m \in Nat
    <3> QED
      BY <2>1, <3>1, <3>3
  <2>4. table[k].filesystem
    BY <1>7, <2>1, <2>3
  <2>5. \A d \in Cores : pc[d] = "clear_fs" /\ at[d] = k => pc'[d] = "clear_fs" /\ at'[d] = k
    BY <1>3, <1>4
  <2> QED
    BY <1>5, <2>3, <2>4, <2>5, SlotsKept
<1>21. ReachedOK'
  <2> SUFFICES ASSUME NEW q \in 1 .. 6, NEW d \in Cores, NEW n \in Names PROVE Reached(q, d, n)'
    BY DEF ReachedOK
  <2>1. fd[d][n] # None => fd'[d][n] = fd[d][n] /\ table'[fd[d][n]].file = table[fd[d][n]].file
    BY <1>5, <1>7, <1>33
  <2>2. pc[d] \in {"fs_open", "done", "undo"} =>
            pc'[d] \in {"fs_open", "done", "undo"} /\ file'[d] = file[d] /\ todo'[d] = todo[d]
    BY <1>3, <1>8
  <2> QED
    BY <1>5, <2>1, <2>2, ReachedKept
<1>22. CountOK'
  <2>1. \A d \in Cores : (pc'[d] \in {"fs_open", "undo"} <=> pc[d] \in {"fs_open", "undo"})
    BY <1>3, <1>4
  <2>2. Pending' = Pending
    BY <1>5, <2>1 DEF Pending
  <2> QED
    BY <1>1, <1>5, <2>2 DEF CountOK, WithContext
<1> QED
  BY <1>10, <1>11, <1>12, <1>13, <1>14, <1>15, <1>16, <1>17, <1>18, <1>19, <1>20, <1>21,
     <1>22 DEF FileInv

\* No slot is vacant: the table is copied first.
LEMMA GrowKeeps ==
    ASSUME FileInv, NEW c \in Cores, AssignFileDescriptor(c),
           table # <<>>, Vacant = {}, NobodyMeets'
    PROVE  FileInv'
<1>1. /\ TypesOK /\ OrderOK /\ PairedOK /\ PlaceOK /\ LockOK /\ OpenOK /\ GrowOK /\ UseOK
      /\ ApartOK /\ OwnOK /\ SlotsReturn /\ ReachedOK /\ CountOK
  BY DEF FileInv
<1>2. /\ pc[c] = "open" /\ pc' = [pc EXCEPT ![c] = "grow"]
      /\ copy' = table /\ table # <<>>
      /\ UNCHANGED <<owner, todo, fd, at, file, mine, table, array, objects, contexts, fails>>
  BY <1>1 DEF AssignFileDescriptor, Go, At
<1>3. pc[c] = "open"
  BY <1>2
<1>4. pc'[c] = "grow" /\ \A d \in Cores \ {c} : pc'[d] = pc[d]
  BY <1>1, <1>2 DEF TypesOK
<1>5. UNCHANGED <<owner, todo, fd, at, file, mine, table, array, objects, contexts, fails>>
  BY <1>2
<1>6. copy' = table
  BY <1>2
<1>7. /\ \A d \in Cores : pc'[d] \in {"fs_open", "done", "undo"} <=> pc[d] \in {"fs_open", "done", "undo"}
      /\ \A d \in Cores : pc[d] = "clear_fs" => pc'[d] = "clear_fs"
  BY <1>3, <1>4
<1>31. \A d \in Cores \ {c} : pc[d] \notin Opening
  BY <1>2, Exclusion DEF Opening
<1>10. TypesOK'
  <2>1. pc' \in [Cores -> {"next"} \cup Opening \cup Writing \cup Closing]
    BY <1>1, <1>2 DEF TypesOK, Opening
  <2> QED
    BY <1>1, <1>2, <1>5, <1>6, <2>1 DEF TypesOK
<1>11. OrderOK'
  BY <1>1, <1>5 DEF OrderOK
<1>12. PairedOK'
  BY <1>1, <1>5 DEF PairedOK
<1>13. PlaceOK'
  <2>1. pc[c] \in Opening /\ pc'[c] \in Opening
    BY <1>3, <1>4 DEF Opening
  <2> QED
    BY <1>1, <1>4, <1>5, <2>1 DEF PlaceOK, Opening
<1>14. LockOK'
  <2>1. owner[Head(todo[c]).function] = c
    BY <1>1, <1>3 DEF LockOK
  <2> QED
    BY <1>1, <1>4, <1>5, <2>1 DEF LockOK
<1>15. OpenOK'
  <2> SUFFICES ASSUME NEW d \in Cores PROVE OpenAt(d)'
    BY DEF OpenOK
  <2> QED
    BY <1>4, <1>31 DEF OpenAt, Opening
<1>16. GrowOK'
  BY <1>2, <1>4, <1>31 DEF GrowOK, Opening
<1>17. UseOK'
  <2> SUFFICES ASSUME NEW d \in Cores PROVE UseAt(d)'
    BY DEF UseOK
  <2>1. CASE d = c
    BY <1>4, <2>1 DEF UseAt
  <2>2. CASE d # c
    BY <1>1, <1>4, <1>5, <2>2 DEF UseOK, UseAt, InTable, Name
  <2> QED
    BY <2>1, <2>2
<1>18. ApartOK'
  BY <1>1, <1>4, <1>5 DEF ApartOK
<1>19. OwnOK'
  BY <1>1, <1>5 DEF OwnOK, Own
<1>20. SlotsReturn'
  BY <1>1, <1>5, <1>7 DEF SlotsReturn, Vacant, At
<1>21. ReachedOK'
  BY <1>1, <1>5, <1>7 DEF ReachedOK, Reached, Name
<1>22. CountOK'
  <2>1. \A d \in Cores : (pc'[d] \in {"fs_open", "undo"} <=> pc[d] \in {"fs_open", "undo"})
    BY <1>3, <1>4
  <2>2. Pending' = Pending
    BY <1>5, <2>1 DEF Pending
  <2> QED
    BY <1>1, <1>5, <2>2 DEF CountOK, WithContext
<1> QED
  BY <1>10, <1>11, <1>12, <1>13, <1>14, <1>15, <1>16, <1>17, <1>18, <1>19, <1>20, <1>21,
     <1>22 DEF FileInv

\* A slot that has never been used.
LEMMA EmptySlot == Empty \in Slots /\ Empty.filesystem = FALSE
BY DEF Empty, Slots, Contexts, None

\* _assign_file_descriptor: the first table, the first vacant slot, or no slot.
LEMMA AssignKeeps ==
    ASSUME FileInv, NEW c \in Cores, AssignFileDescriptor(c), NobodyMeets'
    PROVE  FileInv'
<1>1. TypesOK /\ UseOK /\ table \in Seq(Slots) /\ copy \in Seq(Slots) /\ array \in Nat
  BY DEF FileInv, TypesOK
<1>2. pc[c] = "open" /\ UNCHANGED <<owner, todo, fd, file, mine, array, objects, contexts, fails>>
  BY DEF AssignFileDescriptor, At
<1>3. CASE table = <<>>
  <2>1. /\ pc' = [pc EXCEPT ![c] = "slot"] /\ at' = [at EXCEPT ![c] = Min({1})]
        /\ table' = <<Empty, Empty>> /\ copy' = copy
    BY <1>3 DEF AssignFileDescriptor, Go
  <2>2. PICK i : i = Min({1})
    OBVIOUS
  <2>3. i = 1
    BY <2>2, LeastOf
  <2>4. /\ table' \in Seq(Slots) /\ Len(table') = 2 /\ table'[1] = Empty /\ table'[2] = Empty
        /\ Len(table) = 0
    BY <1>3, <2>1, EmptySlot
  <2>5. \A k \in 1 .. Len(table') : table'[k].filesystem = FALSE
    BY <2>4, EmptySlot
  <2>6. \A d \in Cores : pc[d] \notin {"clear_fs", "clear_file"}
    BY <1>1, <2>4 DEF UseOK, UseAt, InTable
  <2>7. i \in 1 .. Len(table') /\ Len(table) =< Len(table') /\ table'[i].filesystem = FALSE
    BY <2>3, <2>4, <2>5
  <2>8. \A k \in 1 .. Len(table) : table'[k] = table[k]
    BY <2>4
  <2> QED
    BY <1>1, <1>2, <2>1, <2>2, <2>4, <2>5, <2>6, <2>7, <2>8, TakenKeeps
<1>4. CASE table # <<>> /\ Vacant # {}
  <2>1. /\ pc' = [pc EXCEPT ![c] = "slot"] /\ at' = [at EXCEPT ![c] = Min(Vacant)]
        /\ table' = table /\ copy' = copy
    BY <1>4 DEF AssignFileDescriptor, Go
  <2>2. PICK i : i = Min(Vacant)
    OBVIOUS
  <2>3. Vacant \in SUBSET Nat
    BY <1>1 DEF Vacant
  <2>4. i \in Vacant
    BY <1>4, <2>2, <2>3, LeastOf
  <2>5. i \in 1 .. Len(table') /\ table[i] \in Slots /\ ~table[i].filesystem
    BY <1>1, <2>1, <2>4 DEF Vacant
  <2>6. table'[i].filesystem = FALSE
    BY <2>1, <2>5 DEF Slots
  <2>7. Len(table) =< Len(table') /\ \A k \in 1 .. Len(table') : ~(k > Len(table))
    BY <1>1, <2>1
  <2> QED
    BY <1>1, <1>2, <2>1, <2>2, <2>5, <2>6, <2>7, TakenKeeps
<1>5. CASE table # <<>> /\ Vacant = {}
  BY <1>5, GrowKeeps
<1> QED
  BY <1>3, <1>4, <1>5

\* realloc has moved the table, twice as large: the slot is the first of the new ones.
LEMMA ExtendKeeps ==
    ASSUME FileInv, NEW c \in Cores, Extend(c), NobodyMeets'
    PROVE  FileInv'
<1>1. TypesOK /\ NobodyMeets /\ table \in Seq(Slots) /\ array \in Nat
  BY DEF FileInv, TypesOK
<1>2. /\ pc[c] = "grow" /\ pc' = [pc EXCEPT ![c] = "slot"]
      /\ UNCHANGED <<owner, todo, fd, file, mine, objects, contexts, fails>>
      /\ copy' = <<>> /\ array' = array + 1
      /\ at' = [at EXCEPT ![c] = Len(copy) + 1]
      /\ table' = copy \o [i \in DOMAIN copy |-> Empty]
  BY DEF Extend, FirstNew, At, Go
<1>3. copy = table /\ table # <<>>
  BY <1>2 DEF FileInv, GrowOK
<1>4. PICK new : new = [i \in 1 .. Len(table) |-> Empty]
  OBVIOUS
<1>5. PICK l \in Nat : l = Len(table)
  BY <1>1
<1>6. l # 0 /\ DOMAIN copy = 1 .. Len(table)
  BY <1>1, <1>3, <1>5
<1>7. new \in Seq(Slots) /\ Len(new) = l /\ \A k \in 1 .. l : new[k] = Empty
  BY <1>4, <1>5, EmptySlot
<1>8. table' = table \o new
  BY <1>2, <1>3, <1>4, <1>6
<1>9. /\ table' \in Seq(Slots) /\ Len(table') = l + l
      /\ \A k \in 1 .. l : table'[k] = table[k]
      /\ \A k \in 1 .. (l + l) : k > l => table'[k] = new[k - l]
  <2>1. /\ table \o new \in Seq(Slots) /\ Len(table \o new) = Len(table) + Len(new)
        /\ \A k \in 1 .. (Len(table) + Len(new)) :
              (table \o new)[k] = IF k =< Len(table) THEN table[k] ELSE new[k - Len(table)]
    BY <1>1, <1>7, ConcatProperties
  <2>2. \A k \in 1 .. (l + l) : table'[k] = IF k =< l THEN table[k] ELSE new[k - l]
    BY <1>5, <1>7, <1>8, <2>1
  <2>3. \A k \in 1 .. l : k \in 1 .. (l + l) /\ k =< l
    OBVIOUS
  <2> QED
    BY <1>5, <1>7, <1>8, <2>1, <2>2, <2>3
<1>10. \A k \in 1 .. (l + l) : k > l => table'[k].filesystem = FALSE
  <2>1. \A k \in 1 .. (l + l) : k > l => k - l \in 1 .. l
    OBVIOUS
  <2> QED
    BY <1>7, <1>9, <2>1, EmptySlot
<1>11. PICK i : i = l + 1
  OBVIOUS
<1>12. i \in 1 .. (l + l) /\ i > l
  BY <1>6, <1>11
<1>13. \A d \in Cores \ {c} : pc[d] \notin {"clear_fs", "clear_file"}
  BY <1>1, <1>2, Places DEF NobodyMeets, Meets, At
<1>14. at' = [at EXCEPT ![c] = i] /\ i \in 1 .. Len(table') /\ table'[i].filesystem = FALSE
  BY <1>2, <1>3, <1>5, <1>9, <1>10, <1>11, <1>12
<1>15. copy' \in Seq(Slots) /\ array' \in Nat /\ Len(table) =< Len(table')
  BY <1>1, <1>2, <1>5, <1>9
<1>16. /\ \A k \in 1 .. Len(table) : table'[k] = table[k]
       /\ \A k \in 1 .. Len(table') : k > Len(table) => table'[k].filesystem = FALSE
  BY <1>5, <1>9, <1>10
<1>17. UNCHANGED <<owner, todo, fd, file, mine, objects, contexts, fails>>
  BY <1>2
<1> QED
  BY <1>2, <1>9, <1>13, <1>14, <1>15, <1>16, <1>17, TakenKeeps

-----------------------------------------------------------------------------
(* The theorem.                                                            *)

\* Two calls that have not met leave every descriptor its own file: no lookup fails.
LEMMA NoBadDescriptor == ASSUME FileInv, NEW c \in Cores, BadDescriptor(c) PROVE FALSE
<1>1. pc[c] = "bad" /\ pc \in [Cores -> {"next"} \cup Opening \cup Writing \cup Closing]
  BY DEF BadDescriptor, At, FileInv, TypesOK
<1> QED
  BY <1>1 DEF Opening, Writing, Closing

\* Nor does a core write to or close a null pointer.
LEMMA NoFault == ASSUME FileInv, NEW c \in Cores, Faults(c) PROVE FALSE
BY InUse DEF Faults, None

\* Every step of a core that meets nobody in the table keeps the invariant.
LEMMA StepKeeps ==
    ASSUME FileInv, NEW c \in Cores, Step(c), NobodyMeets'
    PROVE  FileInv'
<1>1. CASE Begin(c)
  BY <1>1, BeginKeeps
<1>2. CASE Skip(c)
  BY <1>2, SkipKeeps
<1>3. CASE Enter(c)
  BY <1>3, EnterKeeps
<1>4. CASE Open(c)
  <2>1. CASE AssignFileDescriptor(c)
    BY <2>1, AssignKeeps
  <2>2. CASE Extend(c)
    BY <2>2, ExtendKeeps
  <2>3. CASE AllocateFile(c)
    BY <2>3, AllocateFileKeeps
  <2>4. CASE \E ok \in BOOLEAN : FileOpen(c, ok)
    BY <2>4, FileOpenKeeps
  <2>5. CASE Opened(c)
    BY <2>5, OpenedKeeps
  <2>6. CASE OpenFailed(c)
    BY <2>6, OpenFailedKeeps
  <2> QED
    BY <1>4, <2>1, <2>2, <2>3, <2>4, <2>5, <2>6 DEF Open
<1>5. CASE WriteOrClose(c)
  <2>1. CASE Write(c)
    BY <2>1, WriteKeeps
  <2>2. CASE Unlock(c)
    BY <2>2, UnlockKeeps
  <2>3. CASE FileWrite(c)
    BY <2>3, FileWriteKeeps
  <2>4. CASE Close(c)
    BY <2>4, CloseKeeps
  <2>5. CASE FileClose(c)
    BY <2>5, FileCloseKeeps
  <2>6. CASE ClearFilesystem(c)
    BY <2>6, ClearFilesystemKeeps
  <2>7. CASE ClearFile(c)
    BY <2>7, ClearFileKeeps
  <2>8. CASE BadDescriptor(c)
    BY <2>8, NoBadDescriptor
  <2>9. CASE Faults(c)
    BY <2>9, NoFault
  <2> QED
    BY <1>5, <2>1, <2>2, <2>3, <2>4, <2>5, <2>6, <2>7, <2>8, <2>9 DEF WriteOrClose
<1> QED
  BY <1>1, <1>2, <1>3, <1>4, <1>5 DEF Step

\* At boot there is no table and no file.
LEMMA InitKeeps == Init => IInv
<1> SUFFICES ASSUME Init PROVE IInv
  OBVIOUS
<1> USE DEF Init
<1>1. table = <<>> /\ Len(table) = 0 /\ DOMAIN table = {} /\ table \in Seq(Slots) /\ copy \in Seq(Slots)
  OBVIOUS
<1>2. \A c \in Cores : /\ todo[c] = <<>> /\ Len(todo[c]) = 0 /\ pc[c] = "next" /\ at[c] = None
                       /\ file[c] = None /\ mine[c] = 0 /\ \A n \in Names : fd[c][n] = None
  OBVIOUS
<1>3. objects \in [1 .. 6 -> Owners] /\ \A o \in 1 .. 6 : objects[o] = Free
  BY Places DEF Owners
<1>4. TypesOK
  <2>1. pc \in [Cores -> {"next"} \cup Opening \cup Writing \cup Closing] /\ todo \in [Cores -> Seq(Calls)]
    OBVIOUS
  <2>2. fd \in [Cores -> [Names -> Nat]] /\ at \in [Cores -> Nat] /\ mine \in [Cores -> Nat]
    BY DEF None
  <2>3. file \in [Cores -> Contexts] /\ owner \in [Functions -> Cores \cup {Nobody}]
    BY DEF None, Contexts
  <2> QED
    BY <1>1, <1>3, <2>1, <2>2, <2>3 DEF TypesOK
<1>5. OrderOK /\ PairedOK /\ PlaceOK /\ LockOK /\ OpenOK /\ GrowOK /\ UseOK /\ ApartOK /\ OwnOK
  <2> HIDE DEF Init
  <2>1. OrderOK
    BY <1>2 DEF OrderOK, Ordered
  <2>2. PairedOK /\ PlaceOK /\ LockOK
    BY <1>2 DEF PairedOK, PlaceOK, LockOK
  <2>3. OpenOK /\ GrowOK /\ ApartOK /\ UseOK /\ OwnOK
    BY <1>2 DEF OpenOK, OpenAt, GrowOK, ApartOK, UseOK, UseAt, OwnOK, Own
  <2> QED
    BY <2>1, <2>2, <2>3
<1>6. SlotsReturn
  BY <1>1 DEF SlotsReturn
<1>7. ReachedOK
  BY <1>3, Places DEF ReachedOK, Reached
<1>8. CountOK
  <2>1. WithContext = {}
    BY <1>3 DEF WithContext
  <2> QED
    BY <2>1, FS_EmptySet DEF CountOK
<1>9. NobodyMeets
  BY <1>2, Places DEF NobodyMeets, Meets, At
<1> QED
  BY <1>4, <1>5, <1>6, <1>7, <1>8, <1>9 DEF IInv, FileInv

\* A step in which two calls meet sets raced; before it the invariant holds.
LEMMA NextKeeps == IInv /\ [Next]_vars => IInv'
<1> SUFFICES ASSUME IInv, [Next]_vars PROVE IInv'
  OBVIOUS
<1>1. CASE Next
  <2>1. raced' \in BOOLEAN
    BY <1>1 DEF IInv, Next
  <2>2. ASSUME ~raced' PROVE FileInv'
    <3>1. ~raced /\ ~Meets(core0, core1)' /\ ~Meets(core1, core0)'
      BY <1>1, <2>2 DEF IInv, Next
    <3>2. FileInv /\ NobodyMeets'
      BY <3>1 DEF IInv, NobodyMeets
    <3>3. PICK c \in Cores : Step(c)
      BY <1>1 DEF Next
    <3> QED
      BY <3>2, <3>3, StepKeeps
  <2> QED
    BY <2>1, <2>2 DEF IInv
<1>2. CASE UNCHANGED vars
  <2> SUFFICES ASSUME FileInv PROVE FileInv'
    BY <1>2 DEF IInv, vars
  <2>1. /\ UNCHANGED <<owner, pc, todo, fd, at, file, mine, table>>
        /\ UNCHANGED <<array, copy, objects, contexts, fails>>
    BY <1>2 DEF vars, locals, memory
  <2>2. /\ TypesOK /\ OrderOK /\ PairedOK /\ PlaceOK /\ LockOK /\ OpenOK /\ GrowOK /\ UseOK
        /\ ApartOK /\ OwnOK /\ SlotsReturn /\ ReachedOK /\ CountOK /\ NobodyMeets
    BY DEF FileInv
  <2>3. TypesOK'
    BY <2>1, <2>2 DEF TypesOK
  <2>4. OrderOK' /\ PairedOK' /\ PlaceOK' /\ LockOK'
    BY <2>1, <2>2 DEF OrderOK, PairedOK, PlaceOK, Opening, Writing, LockOK
  <2>5. OpenOK' /\ GrowOK'
    BY <2>1, <2>2 DEF OpenOK, OpenAt, InTable, Name, GrowOK
  <2>6. UseOK'
    BY <2>1, <2>2 DEF UseOK, UseAt, InTable, Name
  <2>7. ApartOK' /\ OwnOK'
    BY <2>1, <2>2 DEF ApartOK, OwnOK, Own, None
  <2>8. SlotsReturn'
    BY <2>1, <2>2 DEF SlotsReturn, Vacant, At, None
  <2>9. ReachedOK'
    BY <2>1, <2>2 DEF ReachedOK, Reached, Name
  <2>10. CountOK'
    BY <2>1, <2>2 DEF CountOK, WithContext, Pending
  <2>11. NobodyMeets'
    BY <2>1, <2>2 DEF NobodyMeets, Meets, At
  <2> QED
    BY <2>3, <2>4, <2>5, <2>6, <2>7, <2>8, <2>9, <2>10, <2>11 DEF FileInv
<1> QED
  BY <1>1, <1>2

\* What the invariant says of the descriptors, the slots and the contexts.
LEMMA InvSound == IInv => TableSound
<1> SUFFICES ASSUME IInv, ~raced PROVE DescriptorsOwn /\ HandsOwn /\ SlotsReturn
         /\ contexts =< fails + Cardinality({o \in DOMAIN objects : objects[o] # Free})
  BY DEF TableSound
<1>1. FileInv
  BY DEF IInv
<1>2. DescriptorsOwn
  <2> SUFFICES ASSUME NEW c \in Cores, NEW n \in Names, fd[c][n] # None
               PROVE  /\ table[fd[c][n]].filesystem /\ table[fd[c][n]].file # None
                      /\ objects[table[fd[c][n]].file] = <<c, n>>
    BY DEF DescriptorsOwn
  <2>1. Own(c, n)
    BY <1>1 DEF FileInv, OwnOK
  <2> QED
    BY <2>1 DEF Own, None
<1>3. HandsOwn
  BY <1>1, InUse DEF HandsOwn
<1>4. SlotsReturn
  BY <1>1 DEF FileInv
<1>5. contexts =< fails + Cardinality({o \in DOMAIN objects : objects[o] # Free})
  <2>1. PICK U : U = {o \in 1 .. 6 : objects[o] # Free}
    OBVIOUS
  <2>2. DOMAIN objects = 1 .. 6
    BY <1>1 DEF FileInv, TypesOK
  <2>3. U \in SUBSET Nat /\ \A o \in U : o <= 6
    BY <2>1
  <2>4. IsFiniteSet(U)
    BY <2>3, FS_BoundedSetOfNaturals
  <2>5. WithContext \subseteq U
    BY <2>1 DEF WithContext
  <2>6. Cardinality(WithContext) <= Cardinality(U)
    BY <2>4, <2>5, FS_Subset
  <2>7. Cardinality(U) \in Nat /\ Cardinality(WithContext) \in Nat
    BY <2>4, FS_CardinalityType, ContextsFinite
  <2>8. contexts \in Int /\ fails \in Nat /\ contexts =< fails + Cardinality(WithContext)
    BY <1>1 DEF FileInv, TypesOK, CountOK
  <2>9. contexts =< fails + Cardinality(U)
    BY <2>6, <2>7, <2>8
  <2> QED
    BY <2>1, <2>2, <2>9
<1> QED
  BY <1>2, <1>3, <1>4, <1>5

\* While no call meets one in the table that it should have been kept from, every
\* descriptor and every call's file is its own, no slot in use is lost and no context but
\* those of failed opens: _open, _write and _close of pico-vfs, from two cores.
THEOREM TableKept == Spec => []TableSound
<1>1. Init => IInv
  BY InitKeeps
<1>2. IInv /\ [Next]_vars => IInv'
  BY NextKeeps
<1>3. IInv => TableSound
  BY InvSound
<1> QED
  BY <1>1, <1>2, <1>3, PTL DEF Spec
=============================================================================
