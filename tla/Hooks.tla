-------------------------------- MODULE Hooks --------------------------------
(***************************************************************************)
(* HookBus: handlers of one event, run in the order of priority and        *)
(* registration.  emit awaits each handler, so that others may register,   *)
(* unregister and emit in between; it works on the registrations it found  *)
(* when it began.                                                          *)
(***************************************************************************)
EXTENDS Integers, Sequences, FiniteSets, SequencesExt

CONSTANTS Hooks,         \* registrations: [priority, mutates, fail_fast]
          Emitters,      \* tasks that emit the event
          MaxHooks,      \* bound: registrations made
          MaxEmits       \* bound: emissions

ASSUME HooksAssumption ==
    /\ Hooks \subseteq [priority : Int, mutates : BOOLEAN, fail_fast : BOOLEAN]
    /\ MaxHooks \in Nat /\ MaxEmits \in Nat

VARIABLES handlers,   \* the registrations, in any order: [sequence, hook]
          sequence,   \* _sequence
          emission,   \* of each emitter: what it has allowed, found, run and still to run
          emits

hookVars == <<handlers, sequence, emission, emits>>

NoEmission == [at |-> "none"]
\* registrations: sorted by priority, then by registration.
Before(a, b) ==
    \/ a.hook.priority < b.hook.priority
    \/ a.hook.priority = b.hook.priority /\ a.sequence < b.sequence

Sorted(set) ==
    CHOOSE seq \in SetToSeqs(set) : \A i, j \in DOMAIN seq : i < j => Before(seq[i], seq[j])

Mutates(seq) == \E i \in DOMAIN seq : seq[i].hook.mutates

HooksInit ==
    /\ handlers = {} /\ sequence = 0
    /\ emission = [t \in Emitters |-> NoEmission]
    /\ emits = 0

\* A mutating hook has to be trusted explicitly; Hooks holds what register accepts.
Register(h) ==
    /\ sequence < MaxHooks
    /\ sequence' = sequence + 1
    /\ handlers' = handlers \cup {[sequence |-> sequence', hook |-> h]}
    /\ UNCHANGED <<emission, emits>>

Unregister(r) ==
    /\ r \in handlers
    /\ handlers' = handlers \ {r}
    /\ UNCHANGED <<sequence, emission, emits>>

\* With a mutating handler among those found, emit needs evidence that policy allows.
BeginEmit(t, allowed) ==
    /\ emission[t].at # "running" /\ emits < MaxEmits
    /\ emits' = emits + 1
    /\ emission' = [emission EXCEPT ![t] =
          IF Mutates(Sorted(handlers)) /\ ~allowed
          THEN [at |-> "refused"]
          ELSE [at |-> "running", allowed |-> allowed, found |-> Sorted(handlers),
                ran |-> <<>>]]
    /\ UNCHANGED <<handlers, sequence>>

\* Mutant: the loop looks the handlers up again.
LiveHandlers(t) ==
    SelectSeq(Sorted(handlers), LAMBDA r : \A i \in DOMAIN emission[t].ran : emission[t].ran[i] # r)

RemainingHandlers(t) ==
    SubSeq(emission[t].found, Len(emission[t].ran) + 1, Len(emission[t].found))

\* The next handler succeeds, or fails or times out; fail_fast ends the emission.
Handle(t, success) ==
    LET next == Head(RemainingHandlers(t))
    IN /\ emission[t].at = "running" /\ RemainingHandlers(t) # <<>>
       /\ emission' = [emission EXCEPT
             ![t].ran = Append(@, next),
             ![t].at = IF success \/ ~next.hook.fail_fast THEN "running" ELSE "raised"]
       /\ UNCHANGED <<handlers, sequence, emits>>

\* The last handler has run; or the task is cancelled in one.
EndEmit(t) ==
    /\ emission[t].at = "running" /\ RemainingHandlers(t) = <<>>
    /\ emission' = [emission EXCEPT ![t].at = "done"]
    /\ UNCHANGED <<handlers, sequence, emits>>

CancelEmit(t) ==
    /\ emission[t].at = "running" /\ RemainingHandlers(t) # <<>>
    /\ emission' = [emission EXCEPT ![t].at = "raised"]
    /\ UNCHANGED <<handlers, sequence, emits>>

HooksNext ==
    \/ \E h \in Hooks : Register(h)
    \/ \E r \in handlers : Unregister(r)
    \/ \E t \in Emitters :
          \/ \E allowed \in BOOLEAN : BeginEmit(t, allowed)
          \/ \E success \in BOOLEAN : Handle(t, success)
          \/ EndEmit(t) \/ CancelEmit(t)

HooksSpec == HooksInit /\ [][HooksNext]_hookVars

-----------------------------------------------------------------------------

\* A mutating hook runs only in an emission that policy has allowed.  What has run is
\* among the handlers that emit found, each once, in the order of priority and
\* registration, with every earlier handler before it, and all of them when the
\* emission is done: whoever registers or unregisters while a handler is awaited.
MutationIsGoverned ==
    \A t \in Emitters :
       emission[t].at \in {"running", "raised", "done"} =>
          LET ran == emission[t].ran
              found == emission[t].found
          IN  /\ Mutates(ran) => emission[t].allowed
              /\ \A i, j \in DOMAIN ran : i < j => Before(ran[i], ran[j])
              /\ ToSet(ran) \subseteq ToSet(found)
              /\ \A r \in ToSet(found) :
                    emission[t].at = "done" \/ (\E s \in ToSet(ran) : Before(r, s)) => r \in ToSet(ran)
=============================================================================
