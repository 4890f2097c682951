-------------------------- MODULE Registry_proofs --------------------------
(***************************************************************************)
(* For any number of threads, of calls and of handlers: the table stands   *)
(* still while it is read, every handler is in it once, and every call is  *)
(* answered by the first handler that takes its extension.  The argument   *)
(* is the inductive invariant IInv of Registry: a thread that has come as  *)
(* far as the table has seen the library's flag set, and once it is set    *)
(* nothing is inserted by a call any more.                                 *)
(***************************************************************************)
EXTENDS Registry, TLAPS

Locked   == {"check", "register", "push", "unlock"}
Ready    == {"unlock", "search", "use", "return"}
Record   == [at : Steps, ext : Names \union {""}, call : Calls \union {""}, pos : Nat \ {0},
             entry : [place : Nat, index : Nat], answer : Answers, calls : 0 .. MaxCalls]

-----------------------------------------------------------------------------
(* What the invariant says of one thread                                   *)

LibraryFacts ==
  /\ \A h \in Range(Library) : h \in Handlers
  /\ \A i \in DOMAIN Library : Library[i] \in Range(Library)
  /\ \A i, j \in DOMAIN Library : Library[i] = Library[j] => i = j
  /\ DOMAIN Library = 1 .. Len(Library) /\ Len(Library) \in Nat

(* The library's handlers are handlers, each with one position.            *)
LEMMA LibraryIsSound == LibraryFacts
  BY LibraryAssumption DEF LibraryFacts, Range, Handlers

(* The entries that take an extension are at positions of the table.       *)
LEMMA Positions ==
  ASSUME TypeOK
  PROVE  /\ DOMAIN table.entries = 1 .. Len(table.entries) /\ Len(table.entries) \in Nat
         /\ \A ext : \A i \in Takers(ext) : i \in Nat /\ 1 <= i
<1>0. table.entries \in Seq(Handlers)
  BY DEF TypeOK
<1>1. DOMAIN table.entries = 1 .. Len(table.entries) /\ Len(table.entries) \in Nat
  BY <1>0
<1> QED BY <1>1 DEF Takers

(* Only one thread is between its locking and its unlocking.               *)
LEMMA OneHolder ==
  ASSUME TypeOK, NEW t \in Threads, NEW u \in Threads,
         thread[t].at \in Locked, thread[u].at \in Locked
  PROVE  t = u
BY DEF TypeOK, Locked

(* While one thread inserts, no other reads the table or has read it.      *)
LEMMA InsertsAlone ==
  ASSUME IInv, NEW t \in Threads, NEW u \in Threads,
         thread[t].at \in {"register", "push"}
  PROVE  thread[u].at \notin {"search", "use", "return"}
BY DEF IInv, Sound, FlagFollowsPhase

(* An insertion adds one handler, and keeps the others where they are.     *)
LEMMA Insertion ==
  ASSUME NEW h \in Handlers, table.entries \in Seq(Handlers), table.place \in Nat,
         table' = Inserted(h)
  PROVE  /\ table'.entries \in Seq(Handlers) /\ table'.place \in Nat
         /\ DOMAIN table'.entries = (DOMAIN table.entries) \union {Len(table.entries) + 1}
         /\ \A i \in DOMAIN table.entries : table'.entries[i] = table.entries[i]
         /\ table'.entries[Len(table.entries) + 1] = h
         /\ Range(table'.entries) = Range(table.entries) \union {h}
         /\ (NoTwins /\ h \notin Range(table.entries)) => NoTwins'
<1>1. table'.entries = Append(table.entries, h) /\ table'.place = table.place + 1
  BY DEF Inserted
<1> DEFINE old == table.entries
           new == table'.entries
<1>2. /\ Len(old) \in Nat /\ DOMAIN old = 1 .. Len(old)
      /\ new \in Seq(Handlers) /\ Len(new) = Len(old) + 1 /\ DOMAIN new = 1 .. Len(old) + 1
      /\ \A i \in 1 .. Len(old) : new[i] = old[i]
      /\ new[Len(old) + 1] = h
  BY <1>1
<1> HIDE DEF old, new
<1>3. Range(new) = Range(old) \union {h}
  <2>1. Range(old) = {old[i] : i \in 1 .. Len(old)} /\ Range(new) = {new[i] : i \in 1 .. Len(old) + 1}
    BY <1>2 DEF Range
  <2>2. ASSUME NEW x \in Range(new) PROVE x \in Range(old) \union {h}
    <3>1. PICK i \in 1 .. Len(old) + 1 : x = new[i]
      BY <2>1, <2>2
    <3>2. CASE i = Len(old) + 1
      BY <1>2, <3>1, <3>2
    <3>3. CASE i \in 1 .. Len(old)
      BY <1>2, <2>1, <3>1, <3>3
    <3> QED BY <1>2, <3>1, <3>2, <3>3
  <2>3. ASSUME NEW x \in Range(old) PROVE x \in Range(new)
    <3>1. PICK i \in 1 .. Len(old) : x = old[i]
      BY <2>1, <2>3
    <3>2. i \in 1 .. Len(old) + 1 /\ x = new[i]
      BY <1>2, <3>1
    <3> QED BY <2>1, <3>2
  <2>4. h \in Range(new)
    <3>1. Len(old) + 1 \in 1 .. Len(old) + 1
      BY <1>2
    <3> QED BY <1>2, <2>1, <3>1
  <2> QED BY <2>2, <2>3, <2>4
<1>4. ASSUME NoTwins, h \notin Range(old) PROVE NoTwins'
  <2>1. \A i \in 1 .. Len(old) : old[i] # h
    BY <1>2, <1>4 DEF Range
  <2>2. \A i, j \in 1 .. Len(old) : old[i] = old[j] => i = j
    BY <1>2, <1>4 DEF NoTwins, old
  <2>3. \A i, j \in 1 .. Len(old) + 1 : new[i] = new[j] => i = j
    BY <1>2, <2>1, <2>2
  <2> QED BY <1>2, <2>3 DEF NoTwins, new
<1> QED BY <1>1, <1>2, <1>3, <1>4 DEF old, new

-----------------------------------------------------------------------------
(* The records of the threads                                              *)

(* The record of a thread that is in no call.                              *)
LEMMA Idles ==
  ASSUME NEW n \in 0 .. MaxCalls
  PROVE  Idle(n) \in Record /\ Idle(n).at = "idle" /\ Idle(n).pos = 1
<1>1. "idle" \in Steps /\ <<"none">> \in Answers /\ NoEntry \in [place : Nat, index : Nat]
  BY DEF Steps, Answers, NoEntry
<1>2. 1 \in Nat \ {0}
  OBVIOUS
<1> QED BY <1>1, <1>2 DEF Idle, Record

(* The record of a thread that begins a call.                              *)
LEMMA Called ==
  ASSUME NEW r \in Record, r.at = "idle", NEW ext \in Names, NEW call \in Calls
  PROVE  LET c == [r EXCEPT !.at = "lock", !.ext = ext, !.call = call]
         IN  c \in Record /\ c.at = "lock" /\ c.pos = r.pos
BY DEF Record, Steps

-----------------------------------------------------------------------------
(* One thread's step                                                       *)

(* Who holds the mutex, when thread t goes on as r says.                   *)
Holding(t, r, l) ==
  IF r.at \in Locked THEN l = t
  ELSE l = IF lock = t THEN NoThread ELSE lock

(* A step that only moves its thread keeps what is said of the others.     *)
LEMMA MoveKeepsIInv ==
  ASSUME IInv, NEW t \in Threads, NEW r \in Record, Sound(r),
         thread' = [thread EXCEPT ![t] = r],
         UNCHANGED <<table, isRegistered, handlerRegistered>>,
         r.at \in Locked => lock \in {t, NoThread},
         Holding(t, r, lock')
  PROVE  IInv'
<1>1. thread \in [Threads -> Record]
  BY DEF IInv, TypeOK, Record
<1>2. thread' \in [Threads -> Record] /\ thread'[t] = r
        /\ \A u \in Threads \ {t} : thread'[u] = thread[u]
  BY <1>1
<1>3. \A u \in Threads : Sound(thread'[u])
  BY <1>2 DEF IInv
<1>4. ASSUME NEW u \in Threads PROVE Sound(thread[u])'
  <2>1. FlagFollowsPhase(thread[u])'
    BY <1>3 DEF Sound, FlagFollowsPhase
  <2>2. RegisteredSoFar(thread[u])'
    BY <1>3 DEF Sound, RegisteredSoFar
  <2>3. SearchedSoFar(thread[u])'
    BY <1>3 DEF Sound, SearchedSoFar, Takers
  <2>4. AnswerIsRight(thread[u])'
    BY <1>3 DEF Sound, AnswerIsRight, Takers
  <2> QED BY <2>1, <2>2, <2>3, <2>4 DEF Sound
<1>5. lock' \in Threads \union {NoThread}
  BY DEF IInv, TypeOK, Holding
<1>6. \A u \in Threads : thread'[u].at \in Locked <=> lock' = u
  BY ZenonT(60), <1>2, ThreadsAssumption DEF IInv, TypeOK, Holding, Locked, NoThread
<1>7. TypeOK'
  BY <1>2, <1>5, <1>6 DEF IInv, TypeOK, Record, Locked
<1>8. FlagsTellTheTable' /\ NoTwins' /\ AllRegistered'
  BY DEF IInv, FlagsTellTheTable, NoTwins, AllRegistered
<1> QED BY <1>4, <1>7, <1>8 DEF IInv

(* A call that begins asks nothing of the table yet.                       *)
LEMMA CallKeepsIInv ==
  ASSUME IInv, NEW t \in Threads, NEW ext \in Names, NEW call \in Calls, Call(t, ext, call)
  PROVE  IInv'
<1> DEFINE i == Idle(thread[t].calls + 1)
           r == [i EXCEPT !.at = "lock", !.ext = ext, !.call = call]
<1>1. thread[t] \in Record /\ thread[t].at = "idle" /\ thread[t].calls < MaxCalls
  BY DEF IInv, TypeOK, Call, At, Record
<1>2. thread[t].calls \in 0 .. MaxCalls
  BY <1>1 DEF Record
<1>3. thread[t].calls + 1 \in 0 .. MaxCalls
  BY <1>1, <1>2, CallsAssumption
<1>4. i \in Record /\ i.at = "idle" /\ i.pos = 1
  BY <1>3, Idles
<1>5. thread' = [thread EXCEPT ![t] = r]
  BY DEF Call
<1> HIDE DEF i
<1>6. r \in Record /\ r.at = "lock" /\ r.pos = 1
  BY <1>4, Called
<1> HIDE DEF r
<1>7. Sound(r)
  BY <1>6 DEF Sound, FlagFollowsPhase, RegisteredSoFar, SearchedSoFar, AnswerIsRight
<1>8. Holding(t, r, lock') /\ r.at \notin Locked
  BY <1>1, <1>6 DEF Holding, Locked, Call, IInv, TypeOK
<1> QED BY <1>5, <1>6, <1>7, <1>8, MoveKeepsIInv DEF Call

(* A thread takes the mutex when nobody holds it.                          *)
LEMMA LockKeepsIInv ==
  ASSUME IInv, NEW t \in Threads, Lock(t)
  PROVE  IInv'
<1> DEFINE r == [thread[t] EXCEPT !.at = "check"]
<1>1. thread[t] \in Record /\ Sound(thread[t]) /\ thread[t].at = "lock"
  BY DEF IInv, TypeOK, Lock, At, Record
<1>2. r \in Record /\ r.at = "check" /\ r.pos = thread[t].pos
  BY <1>1 DEF Record, Steps
<1>3. Sound(r)
  BY <1>1, <1>2 DEF Sound, FlagFollowsPhase, RegisteredSoFar, SearchedSoFar, AnswerIsRight
<1>4. Holding(t, r, lock')
  BY <1>2 DEF Holding, Locked, Lock
<1>5. thread' = [thread EXCEPT ![t] = r]
  BY DEF Lock, Goes
<1> QED BY <1>2, <1>3, <1>4, <1>5, MoveKeepsIInv DEF Lock

(* The flag decides whether the thread registers.                          *)
LEMMA CheckKeepsIInv ==
  ASSUME IInv, NEW t \in Threads, Check(t)
  PROVE  IInv'
<1> DEFINE r == [thread[t] EXCEPT !.at = IF isRegistered THEN "unlock" ELSE "register"]
<1>1. thread[t] \in Record /\ Sound(thread[t]) /\ thread[t].at = "check" /\ lock = t
  BY DEF IInv, TypeOK, Check, At, Record
<1>2. r \in Record /\ r.pos = thread[t].pos
        /\ r.at = IF isRegistered THEN "unlock" ELSE "register"
  BY <1>1 DEF Record, Steps
<1>3. r.pos = 1 /\ \A i \in DOMAIN Library : ~ (i < r.pos)
  BY <1>1, <1>2, LibraryIsSound DEF Sound, RegisteredSoFar, LibraryFacts
<1>4. Sound(r)
  BY <1>1, <1>2, <1>3 DEF Sound, FlagFollowsPhase, RegisteredSoFar, SearchedSoFar, AnswerIsRight
<1>5. Holding(t, r, lock')
  BY <1>1, <1>2 DEF Holding, Locked, Check
<1>6. thread' = [thread EXCEPT ![t] = r]
  BY DEF Check, Goes
<1> QED BY <1>1, <1>2, <1>4, <1>5, <1>6, MoveKeepsIInv DEF Check

(* A thread that gives the mutex back has seen the flag set.               *)
LEMMA UnlockKeepsIInv ==
  ASSUME IInv, NEW t \in Threads, Unlock(t)
  PROVE  IInv'
<1> DEFINE s == thread[t]
           r == [s EXCEPT !.at = "search", !.pos = 1]
<1>1. s \in Record /\ Sound(s) /\ s.at = "unlock" /\ lock = t
  BY DEF IInv, TypeOK, Unlock, At, Record
<1>2. "search" \in Steps /\ 1 \in Nat \ {0}
  BY DEF Steps
<1>4. thread' = [thread EXCEPT ![t] = r]
  BY DEF Unlock
<1> HIDE DEF s
<1>3. r \in Record /\ r.pos = 1 /\ r.at = "search"
  BY <1>1, <1>2 DEF Record, r
<1> HIDE DEF r
<1>5. \A i \in Takers(r.ext) : r.pos <= i
  BY <1>3, Positions DEF IInv
<1>6. Sound(r)
  BY <1>1, <1>3, <1>5 DEF Sound, FlagFollowsPhase, RegisteredSoFar, SearchedSoFar, AnswerIsRight
<1>7. Holding(t, r, lock')
  BY <1>1, <1>3 DEF Holding, Locked, Unlock
<1>8. r.at \in Locked => lock \in {t, NoThread}
  BY <1>1
<1> QED BY <1>3, <1>4, <1>6, <1>7, <1>8, MoveKeepsIInv DEF Unlock

(* A handler that is in the table is passed over; another is inserted next. *)
LEMMA RegisterKeepsIInv ==
  ASSUME IInv, NEW t \in Threads, Register(t)
  PROVE  IInv'
<1> DEFINE s == thread[t]
<1>1. s \in Record /\ Sound(s) /\ s.at = "register" /\ lock = t
  BY DEF IInv, TypeOK, Register, At, Record
<1>2. s.pos \in Nat /\ 1 <= s.pos /\ s.pos <= Len(Library)
  <2>1. s.pos \in Nat \ {0}
    BY <1>1 DEF Record
  <2>2. s.pos <= Len(Library)
    BY DEF Register
  <2> QED BY <2>1, <2>2
<1>3. s.pos \in DOMAIN Library
  BY <1>2, LibraryIsSound DEF LibraryFacts
<1>4. CASE handlerRegistered[Library[s.pos]]
  <2> DEFINE r == [s EXCEPT !.pos = @ + 1]
  <2>1. thread' = [thread EXCEPT ![t] = r]
    BY <1>4 DEF Register
  <2>2. s.pos + 1 \in Nat \ {0}
    BY <1>2
  <2> HIDE DEF s
  <2>3. r \in Record /\ r.at = "register" /\ r.pos = s.pos + 1
    BY <1>1, <2>2 DEF Record
  <2> HIDE DEF r
  <2>4. \A i \in DOMAIN Library : i < r.pos => handlerRegistered[Library[i]]
    <3>1. \A i \in DOMAIN Library : i \in Nat
      BY LibraryIsSound DEF LibraryFacts
    <3>2. \A i \in DOMAIN Library : i < r.pos => i < s.pos \/ i = s.pos
      BY <1>2, <2>3, <3>1
    <3> QED BY <1>1, <1>4, <3>2 DEF Sound, RegisteredSoFar
  <2>5. Sound(r)
    BY <1>1, <2>3, <2>4 DEF Sound, FlagFollowsPhase, RegisteredSoFar, SearchedSoFar, AnswerIsRight
  <2>6. Holding(t, r, lock')
    BY <1>1, <2>3 DEF Holding, Locked, Register
  <2> QED BY <1>1, <2>1, <2>3, <2>5, <2>6, MoveKeepsIInv DEF Register
<1>5. CASE ~ handlerRegistered[Library[s.pos]]
  <2> DEFINE r == [s EXCEPT !.at = "push"]
  <2>1. thread' = [thread EXCEPT ![t] = r]
    BY <1>5 DEF Register, Goes
  <2> HIDE DEF s
  <2>2. r \in Record /\ r.at = "push" /\ r.pos = s.pos
    BY <1>1 DEF Record, Steps
  <2> HIDE DEF r
  <2>3. Sound(r)
    BY <1>1, <1>3, <1>5, <2>2
    DEF Sound, FlagFollowsPhase, RegisteredSoFar, SearchedSoFar, AnswerIsRight
  <2>4. Holding(t, r, lock')
    BY <1>1, <2>2 DEF Holding, Locked, Register
  <2> QED BY <1>1, <2>1, <2>2, <2>3, <2>4, MoveKeepsIInv DEF Register
<1> QED BY <1>4, <1>5

(* A call that is over is forgotten.                                       *)
LEMMA ReturnKeepsIInv ==
  ASSUME IInv, NEW t \in Threads, Return(t)
  PROVE  IInv'
<1> DEFINE s == thread[t]
           r == Idle(s.calls)
<1>1. s \in Record /\ s.at = "return"
  BY DEF IInv, TypeOK, Return, At, Record
<1>2. thread' = [thread EXCEPT ![t] = r]
  BY DEF Return
<1> HIDE DEF s
<1>3. s.calls \in 0 .. MaxCalls
  BY <1>1 DEF Record
<1>4. r \in Record /\ r.at = "idle"
  BY <1>3, Idles
<1> HIDE DEF r
<1>5. Sound(r)
  BY <1>4 DEF Sound, FlagFollowsPhase, RegisteredSoFar, SearchedSoFar, AnswerIsRight
<1>6. Holding(t, r, lock')
  BY <1>1, <1>4 DEF Holding, Locked, Return, IInv, TypeOK, s
<1>7. r.at \notin Locked
  BY <1>4 DEF Locked
<1> QED BY <1>2, <1>4, <1>5, <1>6, <1>7, MoveKeepsIInv DEF Return

(* The search goes past the entries that do not take the extension.        *)
LEMMA SearchKeepsIInv ==
  ASSUME IInv, NEW t \in Threads, Search(t)
  PROVE  IInv'
<1> DEFINE s == thread[t]
<1>1. s \in Record /\ Sound(s) /\ s.at = "search" /\ lock # t
  BY DEF IInv, TypeOK, Search, At, Record
<1>2. isRegistered /\ \A i \in Takers(s.ext) : s.pos <= i
  BY <1>1 DEF Sound, FlagFollowsPhase, SearchedSoFar
<1>3. s.pos \in Nat /\ 1 <= s.pos
  <2>1. s.pos \in Nat \ {0}
    BY <1>1 DEF Record
  <2> QED BY <2>1
<1>4. DOMAIN table.entries = 1 .. Len(table.entries) /\ Len(table.entries) \in Nat
        /\ \A i \in Takers(s.ext) : i \in Nat /\ 1 <= i
  BY Positions DEF IInv
<1>5. CASE s.pos > Len(table.entries)
  <2> DEFINE r == [s EXCEPT !.at = "return", !.answer = <<"UNRECOGNIZED_IMAGE_TYPE">>]
  <2>1. thread' = [thread EXCEPT ![t] = r]
    BY <1>5 DEF Search, Returns
  <2>2. "return" \in Steps /\ <<"UNRECOGNIZED_IMAGE_TYPE">> \in Answers
    BY DEF Steps, Answers
  <2>3. \A h \in Range(Library) \union Range(table.entries) : s.ext \notin Extensions[h]
    <3>1. Takers(s.ext) = {}
      BY <1>2, <1>3, <1>4, <1>5 DEF Takers
    <3>2. \A h \in Range(table.entries) : s.ext \notin Extensions[h]
      BY <3>1 DEF Takers, Range
    <3>3. Range(Library) \subseteq Range(table.entries)
      BY <1>2 DEF IInv, AllRegistered, FlagsTellTheTable
    <3> QED BY <3>2, <3>3
  <2> HIDE DEF s
  <2>4. r \in Record /\ r.at = "return" /\ r.ext = s.ext
          /\ r.answer = <<"UNRECOGNIZED_IMAGE_TYPE">>
    BY <1>1, <2>2 DEF Record
  <2> HIDE DEF r
  <2>5. AnswerIsRight(r)
    BY <2>3, <2>4 DEF AnswerIsRight
  <2>6. Sound(r)
    BY <1>2, <2>4, <2>5 DEF Sound, FlagFollowsPhase, RegisteredSoFar, SearchedSoFar
  <2>7. Holding(t, r, lock') /\ r.at \notin Locked
    BY <1>1, <2>4 DEF Holding, Locked, Search
  <2> QED BY <2>1, <2>4, <2>6, <2>7, MoveKeepsIInv DEF Search
<1>6. CASE s.pos <= Len(table.entries) /\ s.ext \in Extensions[table.entries[s.pos]]
  <2> DEFINE e == [place |-> table.place, index |-> s.pos]
             r == [s EXCEPT !.at = "use", !.entry = e]
  <2>0. ~ (s.pos > Len(table.entries))
    BY <1>3, <1>4, <1>6
  <2>1. thread' = [thread EXCEPT ![t] = r]
    BY <1>6, <2>0 DEF Search
  <2>2. "use" \in Steps /\ e \in [place : Nat, index : Nat]
    BY <1>3 DEF Steps, IInv, TypeOK
  <2>3. s.pos \in Takers(s.ext)
    BY <1>3, <1>4, <1>6 DEF Takers
  <2>4. e.place = table.place /\ e.index = s.pos
    OBVIOUS
  <2> HIDE DEF s, e
  <2>5. r \in Record /\ r.at = "use" /\ r.ext = s.ext /\ r.entry = e
    BY <1>1, <2>2 DEF Record
  <2> HIDE DEF r
  <2>6. Sound(r)
    BY <1>2, <2>3, <2>4, <2>5
    DEF Sound, FlagFollowsPhase, RegisteredSoFar, SearchedSoFar, AnswerIsRight
  <2>7. Holding(t, r, lock') /\ r.at \notin Locked
    BY <1>1, <2>5 DEF Holding, Locked, Search
  <2> QED BY <2>1, <2>5, <2>6, <2>7, MoveKeepsIInv DEF Search
<1>7. CASE s.pos <= Len(table.entries) /\ s.ext \notin Extensions[table.entries[s.pos]]
  <2> DEFINE r == [s EXCEPT !.pos = @ + 1]
  <2>0. ~ (s.pos > Len(table.entries))
    BY <1>3, <1>4, <1>7
  <2>1. thread' = [thread EXCEPT ![t] = r]
    BY <1>7, <2>0 DEF Search
  <2>2. s.pos + 1 \in Nat \ {0}
    BY <1>3
  <2>3. \A i \in Takers(s.ext) : s.pos + 1 <= i
    <3>1. \A i \in Takers(s.ext) : i # s.pos
      BY <1>7 DEF Takers
    <3> QED BY <1>2, <1>3, <1>4, <3>1
  <2> HIDE DEF s
  <2>4. r \in Record /\ r.at = "search" /\ r.ext = s.ext /\ r.pos = s.pos + 1
    BY <1>1, <2>2 DEF Record
  <2> HIDE DEF r
  <2>5. Sound(r)
    BY <1>2, <2>3, <2>4 DEF Sound, FlagFollowsPhase, RegisteredSoFar, SearchedSoFar, AnswerIsRight
  <2>6. Holding(t, r, lock') /\ r.at \notin Locked
    BY <1>1, <2>4 DEF Holding, Locked, Search
  <2> QED BY <2>1, <2>4, <2>5, <2>6, MoveKeepsIInv DEF Search
<1> QED BY <1>3, <1>4, <1>5, <1>6, <1>7

(* The entry found is the first that takes the extension.                  *)
LEMMA UseKeepsIInv ==
  ASSUME IInv, NEW t \in Threads, Use(t)
  PROVE  IInv'
<1> DEFINE s      == thread[t]
           k      == s.entry.index
           h      == table.entries[k]
           takers == Takers(s.ext)
           first  == CHOOSE i \in takers : \A j \in takers : i <= j
           answer == IF s.call \in Methods[h] THEN <<"called", h>> ELSE <<"METHOD_NOT_SUPPORTED">>
           r      == [s EXCEPT !.at = "return", !.answer = answer]
<1>1. s \in Record /\ Sound(s) /\ s.at = "use" /\ lock # t
  BY DEF IInv, TypeOK, Use, At, Record
<1>2. isRegistered /\ k \in takers /\ \A i \in takers : k <= i
  BY <1>1 DEF Sound, FlagFollowsPhase, SearchedSoFar
<1>3. \A i \in takers : i \in Nat
  BY Positions DEF IInv
<1>4. first = k
  <2> HIDE DEF takers, k
  <2>1. first \in takers /\ \A j \in takers : first <= j
    BY <1>2
  <2> HIDE DEF first
  <2> QED BY <1>2, <1>3, <2>1
<1>5. h \in Handlers
  <2>1. table.entries \in Seq(Handlers)
    BY DEF IInv, TypeOK
  <2>2. k \in DOMAIN table.entries
    BY <1>2 DEF Takers
  <2> QED BY <2>1, <2>2
<1>6. thread' = [thread EXCEPT ![t] = r]
  BY DEF Use, Returns
<1> HIDE DEF s, h
<1>7. answer \in Answers /\ "return" \in Steps
  BY <1>5 DEF Answers, Steps
<1> HIDE DEF answer
<1>8. r \in Record /\ r.at = "return" /\ r.ext = s.ext /\ r.call = s.call /\ r.answer = answer
  BY <1>1, <1>7 DEF Record
<1> HIDE DEF r
<1>9. AnswerIsRight(r)
  <2>1. Takers(r.ext) = takers /\ takers # {}
    BY <1>2, <1>8
  <2>2. h = table.entries[first]
    BY <1>4 DEF h
  <2>3. \/ r.answer = <<"METHOD_NOT_SUPPORTED">> /\ r.call \notin Methods[h]
        \/ r.answer = <<"called", h>> /\ r.call \in Methods[h]
    BY <1>8 DEF answer
  <2> QED BY <2>1, <2>2, <2>3 DEF AnswerIsRight
<1>10. Sound(r)
  BY <1>2, <1>8, <1>9 DEF Sound, FlagFollowsPhase, RegisteredSoFar, SearchedSoFar
<1>11. Holding(t, r, lock') /\ r.at \notin Locked
  BY <1>1, <1>8 DEF Holding, Locked, Use
<1> QED BY <1>6, <1>8, <1>10, <1>11, MoveKeepsIInv DEF Use

-----------------------------------------------------------------------------
(* Steps that insert, or set the library's flag                            *)

(* Nothing is asked of a thread that has not got the mutex yet.            *)
LEMMA OutsideIsSound ==
  ASSUME NEW u \in Threads, thread'[u].at \in {"idle", "lock"},
         thread'[u].at = "lock" => thread'[u].pos = 1
  PROVE  Sound(thread[u])'
BY DEF Sound, FlagFollowsPhase, RegisteredSoFar, SearchedSoFar, AnswerIsRight

(* While one thread registers, the others are idle or wait for the mutex.  *)
LEMMA OthersWait ==
  ASSUME IInv, NEW t \in Threads, thread[t].at \in {"register", "push"},
         NEW u \in Threads \ {t}, thread'[u] = thread[u]
  PROVE  Sound(thread[u])'
<1>1. thread[u].at \in Steps
  BY DEF IInv, TypeOK
<1>2. thread[u].at \notin Locked
  BY OneHolder DEF IInv, Locked
<1>3. thread[u].at \in {"idle", "lock"}
  BY <1>1, <1>2, InsertsAlone DEF Steps, Locked
<1>4. thread[u].at = "lock" => thread[u].pos = 1
  BY DEF IInv, Sound, RegisteredSoFar
<1> QED BY <1>3, <1>4, OutsideIsSound

(* A handler is inserted that was not there, and its flag is set.          *)
LEMMA PushKeepsIInv ==
  ASSUME IInv, NEW t \in Threads, Push(t)
  PROVE  IInv'
<1> DEFINE s == thread[t]
           h == Library[s.pos]
           r == [s EXCEPT !.at = "register", !.pos = @ + 1]
<1>1. s \in Record /\ Sound(s) /\ s.at = "push" /\ lock = t
  BY DEF IInv, TypeOK, Push, At, Record
<1>2. thread \in [Threads -> Record] /\ thread' = [thread EXCEPT ![t] = r]
  BY DEF Push, IInv, TypeOK, Record
<1>3. s.pos \in DOMAIN Library /\ ~ isRegistered /\ ~ handlerRegistered[h]
        /\ \A i \in DOMAIN Library : i < s.pos => handlerRegistered[Library[i]]
  BY <1>1 DEF Sound, FlagFollowsPhase, RegisteredSoFar
<1>4. h \in Range(Library) /\ h \in Handlers /\ s.pos \in Nat
  BY <1>3, LibraryIsSound DEF LibraryFacts
<1>5. h \notin Range(table.entries)
  BY <1>3, <1>4 DEF IInv, FlagsTellTheTable
<1>6. table.entries \in Seq(Handlers) /\ table.place \in Nat
  BY DEF IInv, TypeOK
<1>7. table' = Inserted(h) /\ handlerRegistered' = [handlerRegistered EXCEPT ![h] = TRUE]
  BY DEF Push
<1>8. /\ table'.entries \in Seq(Handlers) /\ table'.place \in Nat
      /\ Range(table'.entries) = Range(table.entries) \union {h}
      /\ NoTwins'
  BY <1>4, <1>5, <1>6, <1>7, Insertion DEF IInv
<1>9. /\ handlerRegistered' \in [Range(Library) -> BOOLEAN]
      /\ \A g \in Range(Library) : handlerRegistered'[g] <=> g = h \/ handlerRegistered[g]
  BY <1>4, <1>7 DEF IInv, TypeOK
<1>10. s.pos + 1 \in Nat \ {0} /\ "register" \in Steps
  BY <1>4 DEF Steps
<1> HIDE DEF s
<1>11. r \in Record /\ r.at = "register" /\ r.pos = s.pos + 1
  BY <1>1, <1>10 DEF Record
<1> HIDE DEF r
<1>12. thread' \in [Threads -> Record] /\ thread'[t] = r
         /\ \A u \in Threads \ {t} : thread'[u] = thread[u]
  BY <1>2, <1>11
<1>13. Sound(thread[t])'
  <2>1. \A i \in DOMAIN Library : i < r.pos => i < s.pos \/ i = s.pos
    <3>1. \A i \in DOMAIN Library : i \in Nat
      BY LibraryIsSound DEF LibraryFacts
    <3> QED BY <1>4, <1>11, <3>1
  <2>2. \A i \in DOMAIN Library : i < r.pos => handlerRegistered'[Library[i]]
    BY <1>3, <1>9, <2>1, LibraryIsSound DEF LibraryFacts
  <2>3. isRegistered' = isRegistered
    BY DEF Push
  <2> QED
    BY <1>3, <1>11, <1>12, <2>2, <2>3
    DEF Sound, FlagFollowsPhase, RegisteredSoFar, SearchedSoFar, AnswerIsRight
<1>14. \A u \in Threads : Sound(thread[u])'
  <2>1. ASSUME NEW u \in Threads \ {t} PROVE Sound(thread[u])'
    BY <1>1, <1>12, OthersWait DEF s
  <2> QED BY <1>13, <2>1
<1>15. TypeOK'
  <2>1. \A u \in Threads : thread'[u].at \in Locked <=> lock' = u
    BY <1>1, <1>11, <1>12 DEF Push, IInv, TypeOK, Locked, s
  <2> QED BY <1>8, <1>9, <1>12, <2>1 DEF Push, IInv, TypeOK, Record, Locked
<1>16. FlagsTellTheTable'
  BY <1>8, <1>9 DEF IInv, FlagsTellTheTable
<1>17. AllRegistered'
  BY <1>3 DEF Push, AllRegistered
<1> QED BY <1>8, <1>14, <1>15, <1>16, <1>17 DEF IInv

(* When the library sets its flag, all its handlers are in the table.      *)
LEMMA RegisteredKeepsIInv ==
  ASSUME IInv, NEW t \in Threads, Registered(t)
  PROVE  IInv'
<1> DEFINE s == thread[t]
           r == [s EXCEPT !.at = "unlock"]
<1>1. s \in Record /\ Sound(s) /\ s.at = "register" /\ lock = t /\ s.pos > Len(Library)
  BY DEF IInv, TypeOK, Registered, At, Record
<1>2. thread \in [Threads -> Record] /\ thread' = [thread EXCEPT ![t] = r]
  BY DEF Registered, Goes, IInv, TypeOK, Record
<1>3. isRegistered' = TRUE /\ UNCHANGED <<table, handlerRegistered, lock>>
  BY DEF Registered
<1>4. \A h \in Range(Library) : handlerRegistered[h]
  <2>1. \A i \in DOMAIN Library : i \in Nat /\ i <= Len(Library)
    BY LibraryIsSound DEF LibraryFacts
  <2>2. s.pos \in Nat \ {0} /\ Len(Library) \in Nat
    BY <1>1, LibraryIsSound DEF Record, LibraryFacts
  <2>3. \A i \in DOMAIN Library : i < s.pos
    BY <1>1, <2>1, <2>2
  <2>4. \A i \in DOMAIN Library : handlerRegistered[Library[i]]
    BY <1>1, <2>3 DEF Sound, RegisteredSoFar
  <2> QED BY <2>4 DEF Range
<1> HIDE DEF s
<1>5. r \in Record /\ r.at = "unlock"
  BY <1>1 DEF Record, Steps
<1> HIDE DEF r
<1>6. thread' \in [Threads -> Record] /\ thread'[t] = r
        /\ \A u \in Threads \ {t} : thread'[u] = thread[u]
  BY <1>2, <1>5
<1>7. Sound(thread[t])'
  BY <1>3, <1>5, <1>6 DEF Sound, FlagFollowsPhase, RegisteredSoFar, SearchedSoFar, AnswerIsRight
<1>8. \A u \in Threads : Sound(thread[u])'
  <2>1. ASSUME NEW u \in Threads \ {t} PROVE Sound(thread[u])'
    BY <1>1, <1>6, OthersWait DEF s
  <2> QED BY <1>7, <2>1
<1>9. TypeOK'
  <2>1. \A u \in Threads : thread'[u].at \in Locked <=> lock' = u
    BY <1>1, <1>3, <1>5, <1>6 DEF IInv, TypeOK, Locked, s
  <2> QED BY <1>3, <1>6, <2>1 DEF IInv, TypeOK, Record, Locked
<1>10. FlagsTellTheTable' /\ NoTwins' /\ AllRegistered'
  BY <1>3, <1>4 DEF IInv, FlagsTellTheTable, NoTwins, AllRegistered
<1> QED BY <1>8, <1>9, <1>10 DEF IInv

(* A registration by hand, while all threads are idle.                     *)
LEMMA InsertionKeepsIInv ==
  ASSUME IInv, NEW h \in Handlers, \A t \in Threads : thread[t].at = "idle",
         h \notin Range(table.entries), table' = Inserted(h),
         UNCHANGED <<isRegistered, lock, thread>>,
         handlerRegistered' \in [Range(Library) -> BOOLEAN],
         \A g \in Range(Library) : handlerRegistered'[g] <=> g = h \/ handlerRegistered[g]
  PROVE  IInv'
<1>1. table.entries \in Seq(Handlers) /\ table.place \in Nat
  BY DEF IInv, TypeOK
<1>2. /\ table'.entries \in Seq(Handlers) /\ table'.place \in Nat
      /\ Range(table'.entries) = Range(table.entries) \union {h}
      /\ NoTwins'
  BY <1>1, Insertion DEF IInv
<1>3. \A t \in Threads : Sound(thread[t])'
  BY OutsideIsSound
<1>4. TypeOK'
  BY <1>2 DEF IInv, TypeOK
<1>5. FlagsTellTheTable' /\ AllRegistered'
  BY <1>2 DEF IInv, FlagsTellTheTable, AllRegistered
<1> QED BY <1>2, <1>3, <1>4, <1>5 DEF IInv

(* A handler of the library that is registered by hand.                    *)
LEMMA RegisterByHandKeepsIInv ==
  ASSUME IInv, NEW h \in Range(Library), RegisterByHand(h)
  PROVE  IInv'
<1>1. h \in Handlers /\ h \notin Range(table.entries)
  BY LibraryIsSound DEF LibraryFacts, RegisterByHand, IInv, FlagsTellTheTable
<1>2. /\ handlerRegistered' \in [Range(Library) -> BOOLEAN]
      /\ \A g \in Range(Library) : handlerRegistered'[g] <=> g = h \/ handlerRegistered[g]
  BY DEF RegisterByHand, IInv, TypeOK
<1> QED BY <1>1, <1>2, InsertionKeepsIInv DEF RegisterByHand, At

(* A handler of the application.                                           *)
LEMMA RegisterOtherKeepsIInv ==
  ASSUME IInv, NEW h \in Others, RegisterOther(h)
  PROVE  IInv'
<1>1. h \in Handlers /\ h \notin Range(Library)
  BY LibraryAssumption DEF Handlers
<1>2. handlerRegistered' \in [Range(Library) -> BOOLEAN]
        /\ \A g \in Range(Library) : handlerRegistered'[g] <=> g = h \/ handlerRegistered[g]
  BY <1>1 DEF RegisterOther, IInv, TypeOK
<1> QED BY <1>1, <1>2, InsertionKeepsIInv DEF RegisterOther, At

-----------------------------------------------------------------------------
(* The theorems                                                            *)

(* The empty table, and threads that are in no call.                       *)
LEMMA InitSound == Init => IInv
<1> SUFFICES ASSUME Init PROVE IInv
  OBVIOUS
<1>1. \A t \in Threads : thread[t] = Idle(0)
  BY DEF Init
<1>2. Idle(0) \in Record /\ Idle(0).at = "idle"
  BY Idles, CallsAssumption
<1>3. table.entries = <<>> /\ table.place = 1 /\ Range(table.entries) = {}
  BY DEF Init, Range
<1>4. TypeOK
  <2>1. thread \in [Threads -> Record]
    BY <1>2 DEF Init
  <2>2. \A t \in Threads : thread[t].at \in Locked <=> lock = t
    BY <1>1, <1>2, ThreadsAssumption DEF Init, Locked, NoThread
  <2>3. table.entries \in Seq(Handlers) /\ table.place \in Nat
    BY <1>3
  <2> QED BY <2>1, <2>2, <2>3 DEF Init, TypeOK, Record, Locked
<1>5. FlagsTellTheTable /\ NoTwins /\ AllRegistered
  BY <1>3 DEF Init, FlagsTellTheTable, NoTwins, AllRegistered
<1>6. \A t \in Threads : Sound(thread[t])
  BY <1>1, <1>2 DEF Sound, FlagFollowsPhase, RegisteredSoFar, SearchedSoFar, AnswerIsRight
<1> QED BY <1>4, <1>5, <1>6 DEF IInv

(* Every step of every thread, and every registration, keeps the invariant. *)
LEMMA NextKeepsIInv == IInv /\ [Next]_vars => IInv'
<1> SUFFICES ASSUME IInv, [Next]_vars PROVE IInv'
  OBVIOUS
<1>1. CASE UNCHANGED vars
  <2>1. UNCHANGED <<table, isRegistered, handlerRegistered, lock, thread>>
    BY <1>1 DEF vars
  <2>2. TypeOK' /\ FlagsTellTheTable' /\ NoTwins' /\ AllRegistered'
    BY <2>1 DEF IInv, TypeOK, FlagsTellTheTable, NoTwins, AllRegistered
  <2>3. ASSUME NEW t \in Threads PROVE Sound(thread[t])'
    BY <2>1 DEF IInv, Sound, FlagFollowsPhase, RegisteredSoFar, SearchedSoFar, AnswerIsRight, Takers
  <2> QED BY <2>2, <2>3 DEF IInv
<1>2. ASSUME NEW h \in Others, RegisterOther(h) PROVE IInv'
  BY <1>2, RegisterOtherKeepsIInv
<1>3. ASSUME NEW h \in Range(Library), RegisterByHand(h) PROVE IInv'
  BY <1>3, RegisterByHandKeepsIInv
<1>4. ASSUME NEW t \in Threads, Step(t) PROVE IInv'
  BY <1>4, LockKeepsIInv, CheckKeepsIInv, RegisterKeepsIInv, PushKeepsIInv, RegisteredKeepsIInv,
     UnlockKeepsIInv, SearchKeepsIInv, UseKeepsIInv, ReturnKeepsIInv DEF Step
<1>5. ASSUME NEW t \in Threads, NEW ext \in Names, NEW call \in Calls, Call(t, ext, call)
      PROVE  IInv'
  BY <1>5, CallKeepsIInv
<1> QED BY <1>1, <1>2, <1>3, <1>4, <1>5 DEF Next

(* However the calls of the threads interleave, everything that a step of  *)
(* a call relies on holds.                                                 *)
THEOREM Soundness == Spec => []IInv
<1>1. Init => IInv
  BY InitSound
<1>2. IInv /\ [Next]_vars => IInv'
  BY NextKeepsIInv
<1> QED BY <1>1, <1>2, PTL DEF Spec

(* The mutex is held by at most one thread, and exactly between its        *)
(* locking and its unlocking, for any number of threads.                   *)
THEOREM Typing == Spec => []TypeOK
<1>1. IInv => TypeOK
  BY DEF IInv
<1> QED BY <1>1, Soundness, PTL

(* GetImageHandler searches the table, and its caller follows a pointer    *)
(* into it, without the mutex: still no insertion ever moves the table     *)
(* under them, for any number of threads and handlers.                     *)
THEOREM TableIsSafe == Spec => []TableStandsStill
<1>1. IInv => TableStandsStill
  <2> SUFFICES ASSUME IInv, NEW t \in Threads
               PROVE  /\ At(t, "push") =>
                           \A u \in Threads \ {t} : thread[u].at \notin Touching \union {"push"}
                      /\ At(t, "use") => thread[t].entry.place = table.place
    BY DEF TableStandsStill
  <2>1. ASSUME At(t, "push"), NEW u \in Threads \ {t}
        PROVE  thread[u].at \notin Touching \union {"push"}
    <3>1. thread[u].at \notin {"search", "use", "return"}
      BY <2>1, InsertsAlone DEF At
    <3>2. thread[u].at # "push"
      BY <2>1, OneHolder DEF At, IInv, Locked
    <3> QED BY <3>1, <3>2 DEF Touching
  <2>2. At(t, "use") => thread[t].entry.place = table.place
    BY DEF At, IInv, Sound, SearchedSoFar
  <2> QED BY <2>1, <2>2
<1> QED BY <1>1, Soundness, PTL

(* However many threads make the first call, and whatever the application  *)
(* registers by hand before or after it, no handler is in the table twice, *)
(* and none is missing once the library says so.                           *)
THEOREM RegisteredOnce == Spec => []EachHandlerOnce
<1>1. IInv => EachHandlerOnce
  BY DEF IInv, EachHandlerOnce, NoTwins, AllRegistered, FlagsTellTheTable
<1> QED BY <1>1, Soundness, PTL

(* Every call is answered by the first handler that takes the extension,   *)
(* for any number of threads, handlers and extensions.                     *)
THEOREM AnswersCorrect == Spec => []AnswersAreRight
<1>1. IInv => AnswersAreRight
  BY DEF IInv, Sound, AnswersAreRight
<1> QED BY <1>1, Soundness, PTL
=============================================================================
