----------------------------- MODULE Registry -----------------------------
(***************************************************************************)
(* The table of image formats (Tr2ImageHandler.cpp) and the threads that   *)
(* call ReadImage, IsSaveSupported and SaveImage.  The first call puts the *)
(* library's handlers into the table, under a mutex; every call then       *)
(* searches the table and uses the entry it found, without the mutex.      *)
(*                                                                         *)
(* A thread's step is one access to what the threads share.  The table is  *)
(* a vector: an insertion may move all of it to another place, so that it  *)
(* is its entries and the place where they are.                            *)
(***************************************************************************)
EXTENDS Naturals, Sequences, FiniteSets

CONSTANTS
  Threads,      \* the callers
  Library,      \* the library's handlers, in the order of their registration
  Others,       \* handlers of the application
  Extensions,   \* [handler -> the extensions its checkExtension takes]
  Methods,      \* [handler -> those of its functions that are not null]
  Names,        \* extensions that are asked for
  Calls,        \* the functions that are called, a subset of Methods' elements
  MaxCalls      \* bound: how often a thread calls

Range(s) == {s[i] : i \in DOMAIN s}
Handlers == Range(Library) \union Others

ASSUME LibraryAssumption ==
  /\ Library \in Seq(Handlers)
  /\ \A i, j \in DOMAIN Library : Library[i] = Library[j] => i = j
  /\ Range(Library) \intersect Others = {}
ASSUME HandlersAssumption == DOMAIN Extensions = Handlers /\ DOMAIN Methods = Handlers
ASSUME CallsAssumption    == MaxCalls \in Nat
ASSUME ThreadsAssumption  == "no thread" \notin Threads

VARIABLES
  table,              \* s_imageHandlers: entries, and the place they are at
  isRegistered,       \* s_registered of RegisterImageIOHandlers
  handlerRegistered,  \* s_registered of every library handler
  lock,               \* who holds s_registerMutex
  thread              \* what every thread is doing

vars == <<table, isRegistered, handlerRegistered, lock, thread>>

NoThread == "no thread"
NoEntry  == [place |-> 0, index |-> 0]

(* at: the step it takes next; pos: how far it is with the handlers it     *)
(* registers, or in the table; entry: the pointer GetImageHandler returns. *)
Idle(calls) ==
  [at |-> "idle", ext |-> "", call |-> "", pos |-> 1, entry |-> NoEntry,
   answer |-> <<"none">>, calls |-> calls]

Init ==
  /\ table = [entries |-> <<>>, place |-> 1]
  /\ isRegistered = FALSE
  /\ handlerRegistered = [h \in Range(Library) |-> FALSE]
  /\ lock = NoThread
  /\ thread = [t \in Threads |-> Idle(0)]

At(t, step) == thread[t].at = step

Goes(t, step) == thread' = [thread EXCEPT ![t].at = step]

-----------------------------------------------------------------------------
(* The application                                                         *)

(* push_back.  It moves the vector whenever it has no room left: here, as  *)
(* the worst case, always.                                                 *)
Inserted(h) == [entries |-> Append(table.entries, h), place |-> table.place + 1]

(* RegisterImageHandler takes no mutex: the application has to call it     *)
(* while no other call is under way, and once for every handler.           *)
RegisterOther(h) ==
  /\ \A t \in Threads : At(t, "idle")
  /\ h \notin Range(table.entries)
  /\ table' = Inserted(h)
  /\ UNCHANGED <<isRegistered, handlerRegistered, lock, thread>>

(* Mutant: the handler's flag is not set.                                  *)
RegisterByHand_FlagForgotten(h) ==
  /\ \A t \in Threads : At(t, "idle")
  /\ ~ handlerRegistered[h]
  /\ table' = Inserted(h)
  /\ UNCHANGED <<isRegistered, handlerRegistered, lock, thread>>

(* Dds::RegisterHandler and its like are public, too, and take no mutex.   *)
RegisterByHand(h) ==
  /\ \A t \in Threads : At(t, "idle")
  /\ ~ handlerRegistered[h]
  /\ table' = Inserted(h)
  /\ handlerRegistered' = [handlerRegistered EXCEPT ![h] = TRUE]
  /\ UNCHANGED <<isRegistered, lock, thread>>

(* ReadImage( file name ) and the like: only the extension of the name     *)
(* matters.                                                                *)
Call(t, ext, call) ==
  /\ At(t, "idle") /\ thread[t].calls < MaxCalls
  /\ thread' = [thread EXCEPT ![t] =
       [Idle(@.calls + 1) EXCEPT !.at = "lock", !.ext = ext, !.call = call]]
  /\ UNCHANGED <<table, isRegistered, handlerRegistered, lock>>

-----------------------------------------------------------------------------
(* RegisterImageIOHandlers                                                 *)

(* Mutant: the mutex is not asked for.                                     *)
Lock_Free(t) ==
  /\ At(t, "lock")
  /\ Goes(t, "check")
  /\ UNCHANGED <<table, isRegistered, handlerRegistered, lock>>

Lock(t) ==
  /\ At(t, "lock") /\ lock = NoThread
  /\ lock' = t
  /\ Goes(t, "check")
  /\ UNCHANGED <<table, isRegistered, handlerRegistered>>

(* Mutant: the flag is looked at, but the mutex is kept when it is set.    *)
Check_Early(t) ==
  /\ At(t, "check")
  /\ Goes(t, IF isRegistered THEN "search" ELSE "register")
  /\ UNCHANGED <<table, isRegistered, handlerRegistered, lock>>

Check(t) ==
  /\ At(t, "check")
  /\ Goes(t, IF isRegistered THEN "unlock" ELSE "register")
  /\ UNCHANGED <<table, isRegistered, handlerRegistered, lock>>

(* RegisterHandler of one format: its own flag, then push_back begins.     *)
Register(t) ==
  /\ At(t, "register") /\ thread[t].pos <= Len(Library)
  /\ IF handlerRegistered[Library[thread[t].pos]]
     THEN thread' = [thread EXCEPT ![t].pos = @ + 1]
     ELSE Goes(t, "push")
  /\ UNCHANGED <<table, isRegistered, handlerRegistered, lock>>

(* The insertion is done, and the flag is set.                             *)
Push(t) ==
  /\ At(t, "push")
  /\ table' = Inserted(Library[thread[t].pos])
  /\ handlerRegistered' = [handlerRegistered EXCEPT ![Library[thread[t].pos]] = TRUE]
  /\ thread' = [thread EXCEPT ![t].at = "register", ![t].pos = @ + 1]
  /\ UNCHANGED <<isRegistered, lock>>

Registered(t) ==
  /\ At(t, "register") /\ thread[t].pos > Len(Library)
  /\ isRegistered' = TRUE
  /\ Goes(t, "unlock")
  /\ UNCHANGED <<table, handlerRegistered, lock>>

Unlock(t) ==
  /\ At(t, "unlock")
  /\ lock' = NoThread
  /\ thread' = [thread EXCEPT ![t].at = "search", ![t].pos = 1]
  /\ UNCHANGED <<table, isRegistered, handlerRegistered>>

-----------------------------------------------------------------------------
(* GetImageHandler and the call of what it found                           *)

Returns(t, answer) ==
  thread' = [thread EXCEPT ![t].at = "return", ![t].answer = answer]

(* One pass of the loop over the table.                                    *)
Search(t) ==
  /\ At(t, "search")
  /\ LET i == thread[t].pos
     IN  IF i > Len(table.entries) THEN Returns(t, <<"UNRECOGNIZED_IMAGE_TYPE">>)
         ELSE IF thread[t].ext \in Extensions[table.entries[i]]
         THEN thread' = [thread EXCEPT ![t].at = "use",
                                       ![t].entry = [place |-> table.place, index |-> i]]
         ELSE thread' = [thread EXCEPT ![t].pos = @ + 1]
  /\ UNCHANGED <<table, isRegistered, handlerRegistered, lock>>

(* Mutant: a function that is null is called.                              *)
Use_Unchecked(t) ==
  /\ At(t, "use")
  /\ Returns(t, <<"called", table.entries[thread[t].entry.index]>>)
  /\ UNCHANGED <<table, isRegistered, handlerRegistered, lock>>

(* The pointer is followed: is there such a function, and which.           *)
Use(t) ==
  /\ At(t, "use")
  /\ LET h == table.entries[thread[t].entry.index]
     IN  Returns(t, IF thread[t].call \in Methods[h] THEN <<"called", h>>
                    ELSE <<"METHOD_NOT_SUPPORTED">>)
  /\ UNCHANGED <<table, isRegistered, handlerRegistered, lock>>

Return(t) ==
  /\ At(t, "return")
  /\ thread' = [thread EXCEPT ![t] = Idle(@.calls)]
  /\ UNCHANGED <<table, isRegistered, handlerRegistered, lock>>

-----------------------------------------------------------------------------
Step(t) ==
  \/ Lock(t) \/ Check(t) \/ Register(t) \/ Push(t) \/ Registered(t) \/ Unlock(t)
  \/ Search(t) \/ Use(t) \/ Return(t)

Next ==
  \/ \E h \in Others : RegisterOther(h)
  \/ \E h \in Range(Library) : RegisterByHand(h)
  \/ \E t \in Threads : Step(t) \/ \E ext \in Names, call \in Calls : Call(t, ext, call)

(* A thread that is in a call goes on when it can: the operating system    *)
(* runs it, and hands it the mutex when nobody holds or wants it any more. *)
(* Nobody has to call, or to register.                                     *)
Fairness == \A t \in Threads : WF_vars(Step(t))

Spec == Init /\ [][Next]_vars /\ Fairness

-----------------------------------------------------------------------------
(* Properties                                                              *)

Steps == {"idle", "lock", "check", "register", "push", "unlock", "search", "use", "return"}
Answers ==
  {<<"none">>, <<"UNRECOGNIZED_IMAGE_TYPE">>, <<"METHOD_NOT_SUPPORTED">>}
    \union {<<"called", h>> : h \in Handlers}

(* Types, and that a thread holds the mutex exactly between its locking    *)
(* and its unlocking.                                                      *)
TypeOK ==
  /\ table.entries \in Seq(Handlers) /\ table.place \in Nat
  /\ isRegistered \in BOOLEAN
  /\ handlerRegistered \in [Range(Library) -> BOOLEAN]
  /\ lock \in Threads \union {NoThread}
  /\ thread \in [Threads -> [at : Steps, ext : Names \union {""}, call : Calls \union {""},
                             pos : Nat \ {0}, entry : [place : Nat, index : Nat],
                             answer : Answers, calls : 0 .. MaxCalls]]
  /\ \A t \in Threads :
       thread[t].at \in {"check", "register", "push", "unlock"} <=> lock = t

Touching == {"search", "use"}

(* The table is read without the mutex: no thread may search it, or follow *)
(* a pointer into it, while another one inserts; a pointer must still      *)
(* point to where the table is; and no two threads may insert at a time.   *)
TableStandsStill ==
  \A t \in Threads :
    /\ At(t, "push") =>
         \A u \in Threads \ {t} : thread[u].at \notin Touching \union {"push"}
    /\ At(t, "use") => thread[t].entry.place = table.place

(* Every handler is in the table once, however the first calls of several  *)
(* threads and registrations by hand come together; and once the library   *)
(* says it has registered its handlers, all of them are there.             *)
EachHandlerOnce ==
  /\ \A i, j \in DOMAIN table.entries : table.entries[i] = table.entries[j] => i = j
  /\ isRegistered => Range(Library) \subseteq Range(table.entries)

Takers(ext) == {i \in DOMAIN table.entries : ext \in Extensions[table.entries[i]]}

(* What is said about a caller whose record is r: that the function called *)
(* is the one of the first handler that takes the extension.               *)
AnswerIsRight(r) ==
  r.at = "return" =>
    LET takers == Takers(r.ext)
        first  == table.entries[CHOOSE i \in takers : \A j \in takers : i <= j]
    IN  \/ /\ r.answer = <<"UNRECOGNIZED_IMAGE_TYPE">>
           /\ \A h \in Range(Library) \union Range(table.entries) : r.ext \notin Extensions[h]
        \/ /\ r.answer = <<"METHOD_NOT_SUPPORTED">>
           /\ takers # {} /\ r.call \notin Methods[first]
        \/ /\ r.answer = <<"called", first>>
           /\ takers # {} /\ r.call \in Methods[first]

(* A call is answered by the first handler that takes the extension, also  *)
(* when it began before any handler was registered; "unrecognized" is said *)
(* of an extension that no handler takes, the library's ones included.     *)
AnswersAreRight == \A t \in Threads : AnswerIsRight(thread[t])

(* Every call returns: no thread keeps the mutex, waits for one that does  *)
(* or searches for ever.                                                   *)
EveryCallReturns == \A t \in Threads : At(t, "lock") ~> At(t, "idle")

-----------------------------------------------------------------------------
(* The inductive invariant                                                 *)

(* A handler of the library is in the table when its flag is set.          *)
FlagsTellTheTable ==
  \A h \in Range(Library) : handlerRegistered[h] <=> h \in Range(table.entries)

NoTwins ==
  \A i, j \in DOMAIN table.entries : table.entries[i] = table.entries[j] => i = j

AllRegistered == isRegistered => \A h \in Range(Library) : handlerRegistered[h]

(* A thread registers before the library's flag is set, and comes to the   *)
(* table after it.                                                         *)
FlagFollowsPhase(r) ==
  /\ r.at \in {"unlock", "search", "use", "return"} => isRegistered
  /\ r.at \in {"register", "push"} => ~ isRegistered

(* The thread that registers has done the handlers before its position,    *)
(* and inserts one that is not in the table yet.                           *)
RegisteredSoFar(r) ==
  /\ r.at \in {"lock", "check"} => r.pos = 1
  /\ r.at \in {"register", "push"} =>
       \A i \in DOMAIN Library : i < r.pos => handlerRegistered[Library[i]]
  /\ r.at = "push" => r.pos \in DOMAIN Library /\ ~ handlerRegistered[Library[r.pos]]

(* No entry before the one a thread looks at takes its extension, and the  *)
(* one it has found does.                                                  *)
SearchedSoFar(r) ==
  /\ r.at = "search" => \A i \in Takers(r.ext) : r.pos <= i
  /\ r.at = "use" =>
       /\ r.entry.place = table.place
       /\ r.entry.index \in Takers(r.ext)
       /\ \A i \in Takers(r.ext) : r.entry.index <= i

(* All that the steps of a call rely on.                                   *)
Sound(r) == FlagFollowsPhase(r) /\ RegisteredSoFar(r) /\ SearchedSoFar(r) /\ AnswerIsRight(r)

IInv ==
  /\ TypeOK /\ FlagsTellTheTable /\ NoTwins /\ AllRegistered
  /\ \A t \in Threads : Sound(thread[t])
=============================================================================
