----------------------------- MODULE MCQueueConfig -----------------------------
EXTENDS QueueConfig, TLC

AddressSymmetry == Permutations(Queues) \cup Permutations(Programs)

\* Bound: queues, programs, dialogs and files there are at a time.
MaxThings == 5
FewThings ==
    Open + Cardinality({a \in Queues : queue[a] # Null})
         + Cardinality({p \in Programs : program[p] # Null})
         + Cardinality({n \in Names \ {NoName} : file[n] # NoFile}) =< MaxThings

\* The names "a" and "a.x": a.x.mqq is listed after a.mqq, since 'x' is after
\* 'm', and both are files of a queue "a".
BeforeDot == <<1, 1>>
Listing == <<1, 2>>
==============================================================================
