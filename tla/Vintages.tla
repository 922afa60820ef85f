------------------------------- MODULE Vintages -------------------------------
(***************************************************************************)
(* The readers of the registry's lineage: vintage_chain (core/registry.py) *)
(* and the revision triangle built from it (engine/revision.py), evaluated *)
(* on every registry the sessions of module Registry can produce.          *)
(***************************************************************************)
EXTENDS Registry, Sequences, SequencesExt, FiniteSets

Members(chain) == ToSet(chain)

\* A loop that adds a run to the chain until there is none it has not seen: it stops
\* within as many turns as there are runs.
Turns == 0..Cardinality(Runs)

\* Backwards to the original: the linked list is followed until it ends or
\* comes back to a run already seen.
Prepend(chain) ==
  LET previous == runs[Head(chain)].supersedes
  IN IF previous = None \/ previous \in Members(chain) THEN chain ELSE <<previous>> \o chain
Backwards(r) ==
  LET walk[n \in Turns] == IF n = 0 THEN <<r>> ELSE Prepend(walk[n - 1])
  IN walk[Cardinality(Runs)]

\* filter_by(supersedes_run_id=...).order_by(vintage).first(); rows of equal
\* vintage come in an unspecified order.
Successors(r) == {q \in Runs : Registered(q) /\ runs[q].supersedes = r}
First(S) == CHOOSE q \in S : \A p \in S : runs[q].vintage <= runs[p].vintage

\* Forwards from the run asked for, the last of the chain.
Extend(chain) ==
  LET later == First(Successors(Last(chain)))
  IN IF Successors(Last(chain)) = {} \/ later \in Members(chain) THEN chain
     ELSE Append(chain, later)
Forwards(chain) ==
  LET walk[n \in Turns] == IF n = 0 THEN chain ELSE Extend(walk[n - 1])
  IN walk[Cardinality(Runs)]

BackwardsOnly(r) == Backwards(r)      \* mutant: the forward walk is missing
ForwardsOnly(r) == Forwards(<<r>>)    \* mutant: the backward walk is missing
VintageChain(r) == Forwards(Backwards(r))

\* revision_triangle: a dictionary of columns named after the vintage number.
TriangleColumns(chain) == {runs[chain[i]].vintage : i \in DOMAIN chain}

-----------------------------------------------------------------------------
\* Every run that the runs of S lead back to.
SupersededBy(S) == {runs[q].supersedes : q \in {p \in S : Registered(p)}} \ {None}
Ancestors(S) ==
  {q \in Runs : \A C \in SUBSET Runs : S \subseteq C /\ SupersededBy(C) \subseteq C => q \in C}

\* Wherever it is entered, vintage_chain terminates and returns a list of
\* distinct runs, each superseding the one before it, that holds the run asked
\* for and every run it leads back to: no vintage that was corrected is missing,
\* even when corrections onto registered content made the list circular.
ChainWalk ==
  \A r \in Runs : Registered(r) =>
    LET chain == VintageChain(r)
    IN /\ Ancestors({r}) \subseteq Members(chain)
       /\ Cardinality(Members(chain)) = Len(chain)
       /\ \A i \in 1..(Len(chain) - 1) : runs[chain[i + 1]].supersedes = chain[i]

\* The triangle shows every vintage: the chain does not stop before the latest
\* one, which nothing it leaves out supersedes, and no two of its runs share a
\* vintage number, so none overwrites another's column.
TriangleComplete ==
  \A r \in Runs : Registered(r) =>
    LET chain == VintageChain(r)
    IN /\ Successors(Last(chain)) \subseteq Members(chain)
       /\ Cardinality(TriangleColumns(chain)) = Len(chain)

\* Sessions and run contents are interchangeable, and only safety properties are
\* checked of them.
Symmetry == Permutations(Sessions) \cup Permutations(Runs)
================================================================================
