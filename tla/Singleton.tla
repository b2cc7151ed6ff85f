----------------------------- MODULE Singleton -----------------------------
(***************************************************************************)
(* Singleton.h, ThreadLocal.h and ThreadLocalSingleton.h, used as the      *)
(* tests do: Singleton<ThreadLocal<Test> > ("stl") and                     *)
(* ThreadLocalSingleton<Test> ("tls") give each thread an object of its    *)
(* own.  The objects are deleted by the destructors of pthread keys when   *)
(* their thread ends, the singleton by exit().                             *)
(***************************************************************************)
EXTENDS Naturals, Sequences, FiniteSets

CONSTANTS Threads, Main,
          Program,      \* Program[t]: the kinds t asks for, in order
          DtorUses,     \* kinds whose Test::~Test() may ask for the other kind
          Iterations    \* PTHREAD_DESTRUCTOR_ITERATIONS

Kinds == {"stl", "tls"}

ASSUME ProgramAssumption == /\ IsFiniteSet(Threads) /\ Main \in Threads
                            /\ Program \in [Threads -> Seq(Kinds)]

\* Two passes over the keys are enough when one kind asks for the other; that
\* both do is excluded, they would go on for ever.
ASSUME DtorAssumption == DtorUses \subseteq Kinds /\ Iterations \in Nat /\ Iterations >= 2

VARIABLES heap,         \* the Test objects so far: [kind, thread, deleted]
          slot,         \* slot[t][k]: pthread_getspecific(k) in t, 0 for NULL
          t_value_,     \* t_value_[t] of the ThreadLocalSingleton, 0 for NULL
          ponce_,       \* "new", "running" or "done"
          value_,       \* the key of the singleton's ThreadLocal, 0 for NULL
          keys,         \* the keys that exist; TlsKey is that of deleter_
          pc, next,     \* where each thread is, and in which use
          todo, passes, \* the keys of this pass an ending thread has yet to visit
          asking,       \* the kind whose destructor asks for the other, or none
          use,          \* the object a use has just got: [thread, kind, object]
          failed        \* TRUE once an assertion has failed

objectVars == <<heap, slot, t_value_, use, failed>>
onceVars == <<ponce_, value_, keys>>
threadVars == <<pc, next, todo, passes>>
vars == <<objectVars, onceVars, threadVars, asking>>

TlsKey == 1
NoUse == [thread |-> Main, kind |-> "none", object |-> 0]
MaxKeys == Cardinality(Threads) + 1    \* bound of the keys a broken once could make

Init == /\ heap = <<>>
        /\ slot = [t \in Threads |-> [k \in 1 .. MaxKeys |-> 0]]
        /\ t_value_ = [t \in Threads |-> 0]
        /\ ponce_ = "new" /\ value_ = 0
        /\ keys = {TlsKey}
        /\ pc = [t \in Threads |-> "run"]
        /\ next = [t \in Threads |-> 1]
        /\ todo = [t \in Threads |-> {}]
        /\ passes = [t \in Threads |-> 0]
        /\ asking \in {k \in SUBSET DtorUses : Cardinality(k) <= 1}
        /\ use = NoUse /\ failed = FALSE

Goto(t, step) == pc' = [pc EXCEPT ![t] = step]

----------------------------------------------------------------------------
(* What the functions do to the objects, a record of objectVars *)

Objects == [heap |-> heap, slot |-> slot, tValue |-> t_value_, failed |-> failed, use |-> NoUse]

BecomeObjects(o) == /\ heap' = o.heap /\ slot' = o.slot /\ t_value_' = o.tValue
                    /\ failed' = o.failed /\ use' = o.use

Used(o, t, kind, object) == [o EXCEPT !.use = [thread |-> t, kind |-> kind, object |-> object]]

New(o, t, kind) ==
    [o EXCEPT !.heap = Append(@, [kind |-> kind, thread |-> t, deleted |-> 0])]

\* ThreadLocal::value() of the ThreadLocal with key k.
Value(o, t, k) ==
    LET made == IF o.slot[t][k] = 0
                THEN [New(o, t, "stl") EXCEPT !.slot[t][k] = Len(o.heap) + 1]
                ELSE o
    IN  Used(made, t, "stl", made.slot[t][k])

\* Faulty: the key is not set, so no destructor will run.
DeleterSetNothing(o, t, object) == [o EXCEPT !.failed = @ \/ o.slot[t][TlsKey] # 0]

\* Deleter::set() asserts that the slot is empty.
DeleterSet(o, t, object) ==
    [o EXCEPT !.failed = @ \/ o.slot[t][TlsKey] # 0, !.slot[t][TlsKey] = object]

Instance(o, t) ==
    LET object == Len(o.heap) + 1
        made   == IF o.tValue[t] = 0
                  THEN DeleterSet([New(o, t, "tls") EXCEPT !.tValue[t] = object], t, object)
                  ELSE o
    IN  Used(made, t, "tls", made.tValue[t])

Delete(o, object) == [o EXCEPT !.heap[object].deleted = @ + 1]

\* The threads library empties the slot, then calls the destructor.
Emptied(o, t, k) == [o EXCEPT !.slot[t][k] = 0]

\* ThreadLocal::destructor(): ~Test() may ask for the other kind.
StlDestructor(o, t, object) ==
    Delete(IF asking = {"stl"} THEN Instance(o, t) ELSE o, object)

\* Faulty: t_value_ keeps its value.
TlsDestructorKeeps(o, t, object) ==
    LET asked == IF asking = {"tls"} /\ value_ # 0 THEN Value(o, t, value_) ELSE o
    IN  Delete([asked EXCEPT !.failed = @ \/ object # o.tValue[t]], o.tValue[t])

\* ThreadLocalSingleton::destructor(), which asserts that it was given t_value_;
\* its ~Test() may ask for the singleton only if there is one already.
TlsDestructor(o, t, object) ==
    LET asked == IF asking = {"tls"} /\ value_ # 0 THEN Value(o, t, value_) ELSE o
    IN  [Delete([asked EXCEPT !.failed = @ \/ object # o.tValue[t]], o.tValue[t])
            EXCEPT !.tValue[t] = 0]

----------------------------------------------------------------------------
(* A thread asks for its objects *)

Asks(t, kind) == /\ pc[t] = "run"
                 /\ next[t] \in DOMAIN Program[t]
                 /\ Program[t][next[t]] = kind

\* Faulty: whoever finds no value makes one.
CallInitTwice(t) == /\ Asks(t, "stl")
                    /\ value_ = 0
                    /\ ponce_' = "running"
                    /\ Goto(t, "init")
                    /\ use' = NoUse
                    /\ UNCHANGED <<heap, slot, t_value_, failed, value_, keys, next, todo, passes, asking>>

\* pthread_once(): the first caller runs init(), the others wait for it.
CallInit(t) == /\ Asks(t, "stl")
               /\ ponce_ = "new"
               /\ ponce_' = "running"
               /\ Goto(t, "init")
               /\ use' = NoUse
               /\ UNCHANGED <<heap, slot, t_value_, failed, value_, keys, next, todo, passes, asking>>

\* The constructor of ThreadLocal, and its destructor.
KeyCreate == Cardinality(keys) + 1
KeyDelete == keys \ {value_}

\* init(): new ThreadLocal; destroy() is left to exit().
InitSingleton(t) == /\ pc[t] = "init"
                    /\ keys' = keys \cup {KeyCreate}
                    /\ value_' = KeyCreate
                    /\ ponce_' = "done"
                    /\ Goto(t, "run")
                    /\ use' = NoUse
                    /\ UNCHANGED <<heap, slot, t_value_, failed, next, todo, passes, asking>>

UseStl(t) == /\ Asks(t, "stl")
             /\ ponce_ = "done"
             /\ BecomeObjects(Value(Objects, t, value_))
             /\ next' = [next EXCEPT ![t] = @ + 1]
             /\ UNCHANGED <<onceVars, pc, todo, passes, asking>>

UseTls(t) == /\ Asks(t, "tls")
             /\ BecomeObjects(Instance(Objects, t))
             /\ next' = [next EXCEPT ![t] = @ + 1]
             /\ UNCHANGED <<onceVars, pc, todo, passes, asking>>

----------------------------------------------------------------------------
(* The end of a thread, and of the process *)

\* A thread's function returns; main calls pthread_exit(0).
Leave(t) == /\ pc[t] = "run"
            /\ next[t] \notin DOMAIN Program[t]
            /\ Goto(t, "ending")
            /\ use' = NoUse
            /\ UNCHANGED <<heap, slot, t_value_, failed, onceVars, next, todo, passes, asking>>

\* The library goes over the keys again while there is an object, but not for ever.
Pass(t) == /\ pc[t] = "ending"
           /\ todo[t] = {}
           /\ \E k \in keys : slot[t][k] # 0
           /\ passes[t] < Iterations
           /\ todo' = [todo EXCEPT ![t] = keys]
           /\ passes' = [passes EXCEPT ![t] = @ + 1]
           /\ use' = NoUse
           /\ UNCHANGED <<heap, slot, t_value_, failed, onceVars, pc, next, asking>>

\* One key of the pass, in any order.
Reap(t) == /\ pc[t] = "ending"
           /\ \E k \in todo[t] :
                 /\ todo' = [todo EXCEPT ![t] = @ \ {k}]
                 /\ LET object == slot[t][k]
                        o == Emptied(Objects, t, k)
                    IN  CASE object = 0 -> BecomeObjects(o)
                          [] object # 0 /\ k = TlsKey -> BecomeObjects(TlsDestructor(o, t, object))
                          [] object # 0 /\ k # TlsKey -> BecomeObjects(StlDestructor(o, t, object))
           /\ UNCHANGED <<onceVars, pc, next, passes, asking>>

End(t) == /\ pc[t] = "ending"
          /\ todo[t] = {}
          /\ passes[t] = Iterations \/ \A k \in keys : slot[t][k] = 0
          /\ Goto(t, "ended")
          /\ use' = NoUse
          /\ UNCHANGED <<heap, slot, t_value_, failed, onceVars, next, todo, passes, asking>>

\* main returns after it has joined the others: no destructor of a key runs.
Return == /\ pc[Main] = "run"
          /\ next[Main] \notin DOMAIN Program[Main]
          /\ \A t \in Threads \ {Main} : pc[t] = "ended"
          /\ Goto(Main, "returned")
          /\ use' = NoUse
          /\ UNCHANGED <<heap, slot, t_value_, failed, onceVars, next, todo, passes, asking>>

\* exit(), by main or the last thread: destroy() deletes the ThreadLocal, and
\* deleter_ its own key.
Exit == /\ \A t \in Threads : pc[t] \in {"ended", "returned"}
        /\ keys # {}
        /\ keys' = KeyDelete \ {TlsKey}
        /\ use' = NoUse
        /\ UNCHANGED <<heap, slot, t_value_, failed, ponce_, value_, threadVars, asking>>

Finished == keys = {} /\ UNCHANGED vars

Next == \/ \E t \in Threads : \/ CallInit(t) \/ InitSingleton(t) \/ UseStl(t) \/ UseTls(t)
                              \/ Leave(t) \/ Pass(t) \/ Reap(t) \/ End(t)
        \/ Return \/ Exit \/ Finished

Spec == Init /\ [][Next]_vars

----------------------------------------------------------------------------
(* Properties *)

\* What a thread gets, from a destructor too, is a live object of its own, the
\* only one of its kind it has; all threads share one singleton; and the
\* assertions of ThreadLocalSingleton hold.
UsesItsOwn ==
    /\ ~failed
    /\ Cardinality(keys) <= 2
    /\ use # NoUse =>
          LET got == heap[use.object]
          IN  /\ got.thread = use.thread /\ got.kind = use.kind /\ got.deleted = 0
              /\ \A i \in DOMAIN heap \ {use.object} :
                    heap[i].thread = got.thread /\ heap[i].kind = got.kind => heap[i].deleted # 0

\* No object is deleted twice, none while its thread still runs, and none is
\* left behind by a thread that has ended.
Reaped ==
    \A i \in DOMAIN heap :
        /\ heap[i].deleted <= 1
        /\ pc[heap[i].thread] \in {"run", "init", "returned"} => heap[i].deleted = 0
        /\ pc[heap[i].thread] = "ended" => heap[i].deleted = 1

=============================================================================
