---------------------------- MODULE MCComponents ----------------------------
(* The parts of the repository that are checked without fairness, for TLC,    *)
(* one of them in each behaviour: the timing wheel and the shared stacks of   *)
(* misc/coroutine, the RCU of misc/urcu, the reactors of misc/reactor, the    *)
(* ring of utils/CircularBuffer.h, a container, or the programs of one        *)
(* topic on an input that grows by a number at a time.  An invariant about a  *)
(* topic is evaluated on every input up to its length.                        *)
EXTENDS TimingWheel, CoStack, Urcu, Reactor, CircularBuffer, Structures,
        Sorting, DynamicProgramming, ListAlgorithms, TreeAlgorithms, ArrayAlgorithms,
        StringAlgorithms, GraphAlgorithms

VARIABLES
  topic,   \* what the behaviour is about
  input    \* the input of the programs of the topic

\* The inputs of a topic: numbers below width, at most longest of them.
Inputs ==
  [arrays  |-> [width |-> 4, longest |-> 5], optima |-> [width |-> 4, longest |-> 5],
   lists   |-> [width |-> 4, longest |-> 5], trees  |-> [width |-> 3, longest |-> 7],
   strings |-> [width |-> 4, longest |-> 5], graphs |-> [width |-> 4, longest |-> 6]]

allVars == <<vars, stackVars, urcuVars, rVars, ringVars, sVars>>

ComponentsInit ==
  /\ topic \in {"wheel", "stacks", "rcu", "reactor", "ring", "container"} \cup DOMAIN Inputs
  /\ input = << >>
  /\ Init /\ StackInit /\ UrcuInit /\ RInit /\ RingInit /\ SInit
  /\ topic # "wheel" => clock = 1
  /\ topic # "container" => kind = "trie"

Grow ==
  /\ topic \in DOMAIN Inputs /\ Len(input) < Inputs[topic].longest
  /\ \E v \in 0 .. Inputs[topic].width - 1 : input' = Append(input, v)

ComponentsNext ==
  /\ UNCHANGED topic
  /\ \/ /\ topic = "wheel" /\ Next
        /\ UNCHANGED <<input, stackVars, urcuVars, rVars, ringVars, sVars>>
     \/ /\ topic = "stacks" /\ StackNext
        /\ UNCHANGED <<input, vars, urcuVars, rVars, ringVars, sVars>>
     \/ /\ topic = "rcu" /\ UrcuNext
        /\ UNCHANGED <<input, vars, stackVars, rVars, ringVars, sVars>>
     \/ /\ topic = "reactor" /\ RNext
        /\ UNCHANGED <<input, vars, stackVars, urcuVars, ringVars, sVars>>
     \/ /\ topic = "ring" /\ RingNext
        /\ UNCHANGED <<input, vars, stackVars, urcuVars, rVars, sVars>>
     \/ /\ topic = "container" /\ SNext
        /\ UNCHANGED <<input, vars, stackVars, urcuVars, rVars, ringVars>>
     \/ Grow /\ UNCHANGED allVars

ComponentsSpec == ComponentsInit /\ [][ComponentsNext]_<<topic, input, allVars>>

\* The timeout items and the writers, and the coroutines and the readers, are
\* interchangeable; the instances of the modules share the names of their threads.
Symmetry == Permutations(Items) \cup Permutations(Co)

------------------------------------------------------------------------------
\* The sorts of leetcode/divideANDconquer and utils, in place or not, recursive or
\* not; the votes for a majority agree with a count; the searches find what is
\* there, in a rotated array as well; the programs on arrays find the best
\* choice and list every arrangement once.
ArraysAgree ==
  topic = "arrays" =>
    SortsSort(input) /\ MajoritiesAgree(input) /\ RotatedFound(input) /\ ArraysRight(input)

\* An event of leetcode/DP: its first and last day and its value.
Event(v) == <<<<1, 1, 2>>, <<1, 2, 4>>, <<2, 3, 3>>, <<3, 3, 2>>>>[v + 1]

\* The tables of leetcode/DP hold the best over all choices: on the input as a
\* row, as a grid of every width, as a pair of words and as a list of events.
OptimaAgree ==
  topic = "optima" /\ input # << >> =>
    /\ RowOptima(input)
    /\ \A w \in 1 .. 3 : Len(input) % w = 0 => GridOptima(input, w)
    /\ LET h == Len(input) \div 2
       IN  WordOptima(SubSeq(input, 1, h), SubSeq(input, h + 1, Len(input)))
    /\ Len(input) <= 4 => EventOptima([k \in DOMAIN input |-> Event(input[k])])

\* The programs that follow and change links, on lists (leetcode/list,
\* misc/struct/list.h) and on trees (leetcode/tree, leetcode/BST,
\* misc/struct/tree.cpp), keep every node once and answer as the elements do.
LinkedAgree ==
  /\ topic = "lists" => ListsRight(input)
  /\ topic = "trees" => TreesRight(input)

\* The scanners and parsers return what the string means (leetcode/other,
\* utils, the number formatting of tiny/csapp.c).
StringsAgree == topic = "strings" => StringsRight(input)

\* Spanning trees are least, orders respect every arc, searches reach all that
\* can be reached (struct, misc/struct, leetcode/graph).
GraphsAgree == topic = "graphs" => GraphsRight(input)
=============================================================================
