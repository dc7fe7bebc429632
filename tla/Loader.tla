------------------------------- MODULE Loader -------------------------------
(***************************************************************************)
(* The loader of kernel modules (module/loader.c).  A module has a list of *)
(* dependencies; a dependency is a disjunction of names, and a name stands *)
(* for one module or for a subtree of modules.  Here a dependency is the   *)
(* sequence of the modules its names match, in the order in which          *)
(* module_load_disj and module_load_name try them.  The recursion of       *)
(* module_load_i is a stack of activations.                                *)
(***************************************************************************)
EXTENDS Naturals, Sequences, SequencesExt

CONSTANTS
  Count,           \* number of modules
  MaxDependencies  \* bound: dependencies of one module

ASSUME LoaderAssumption == Count \in Nat /\ MaxDependencies \in Nat

Module == 1 .. Count

\* The modules that names can match, in the order of the module list.
Dependency == {d \in BoundedSeq(Module, Count) : \A i \in 2 .. Len(d) : d[i - 1] < d[i]}

VARIABLES
  deps,    \* dependencies[] of every module
  works,   \* the modules whose init() succeeds
  loaded,  \* mr[].loaded
  next,    \* the loop of module_load_all
  stack    \* activations of module_load_i: [mod, depi, todo, success]

lvars == <<deps, works, loaded, next, stack>>

\* No set of modules depends on itself, or module_load_i would not return.
Acyclic(d) ==
  \A S \in (SUBSET Module) \ {{}} :
    \E m \in S : \A i \in DOMAIN d[m] : Range(d[m][i]) \cap S = {}

LInit ==
  /\ deps \in {d \in [Module -> BoundedSeq(Dependency, MaxDependencies)] : Acyclic(d)}
  /\ works \in SUBSET Module
  /\ loaded = {} /\ next = 1 /\ stack = <<>>

\* module_load_disj begins to try the alternatives of dependency i of m.
Activation(m, i) ==
  [mod |-> m, depi |-> i, success |-> FALSE,
   todo |-> IF i \in DOMAIN deps[m] THEN deps[m][i] ELSE <<>>]

Current == Head(stack)

\* module_load_i returns to the disjunction that called it, if any.
Return(result, rest) ==
  stack' = IF rest = <<>> THEN rest
           ELSE << [Head(rest) EXCEPT !.success = @ \/ result] >> \o Tail(rest)

LoadAll ==
  /\ stack = <<>> /\ next <= Count
  /\ next' = next + 1
  /\ stack' = IF next \in loaded THEN <<>> ELSE << Activation(next, 1) >>
  /\ UNCHANGED loaded

\* module_load_name: try the next alternative, whether or not one succeeded.
TryNext ==
  /\ stack # <<>> /\ Current.todo # <<>>
  /\ LET m == Head(Current.todo)
         rest == << [Current EXCEPT !.todo = Tail(@), !.success = @ \/ m \in loaded] >> \o Tail(stack)
     IN  stack' = IF m \in loaded THEN rest ELSE << Activation(m, 1) >> \o rest
  /\ UNCHANGED <<loaded, next>>

DependencyUnchecked ==
  /\ stack # <<>> /\ Current.todo = <<>> /\ Current.depi \in DOMAIN deps[Current.mod]
  /\ stack' = << Activation(Current.mod, Current.depi + 1) >> \o Tail(stack)
  /\ UNCHANGED <<loaded, next>>

\* A dependency has been tried: go on to the next one, or fail.
NextDependency ==
  /\ stack # <<>> /\ Current.todo = <<>> /\ Current.depi \in DOMAIN deps[Current.mod]
  /\ IF Current.success THEN stack' = << Activation(Current.mod, Current.depi + 1) >> \o Tail(stack)
     ELSE Return(FALSE, Tail(stack))
  /\ UNCHANGED <<loaded, next>>

AllTried == stack # <<>> /\ Current.depi \notin DOMAIN deps[Current.mod]

\* The dependencies are met: call init().
CallInit ==
  /\ AllTried
  /\ loaded' = loaded \cup ({Current.mod} \cap works)
  /\ Return(Current.mod \in works, Tail(stack))
  /\ UNCHANGED next

LNext ==
  /\ LoadAll \/ TryNext \/ NextDependency \/ CallInit
  /\ UNCHANGED <<deps, works>>

LSpec == LInit /\ [][LNext]_lvars

-----------------------------------------------------------------------------
\* The reference: the least set of modules that contains every module whose
\* init() succeeds and that has, for each dependency, an alternative in the set.
Met(m, S) == \A i \in DOMAIN deps[m] : Range(deps[m][i]) \cap S # {}
Closed(S) == \A m \in works : Met(m, S) => m \in S
Loadable == {m \in Module : \A S \in SUBSET Module : Closed(S) => m \in S}

\* A module is initialised only when its dependencies are met, only once, and
\* only after every alternative that can be loaded has been ("Try them all,
\* regardless"): the network is configured after all network drivers.  And in
\* the end exactly the loadable modules are loaded, in whatever order the linker
\* lists them and whichever of them fail.
LoadsAfterDependencies ==
  /\ AllTried => /\ Met(Current.mod, loaded) /\ Current.mod \notin loaded
                 /\ \A i \in DOMAIN deps[Current.mod] :
                      Range(deps[Current.mod][i]) \cap Loadable \subseteq loaded
  /\ loaded \subseteq Loadable
  /\ stack = <<>> /\ next > Count => loaded = Loadable

\* Type invariant.
LTypeOK ==
  /\ loaded \subseteq works /\ next \in 1 .. Count + 1
  /\ \A k \in DOMAIN stack : stack[k].mod \in Module
=============================================================================
