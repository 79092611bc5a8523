-------------------------------- MODULE ListNames --------------------------------
(***************************************************************************)
(* How a list is found by the name the model gives it: domain/resolve.rs   *)
(* and ServerState::resolve_list. Names and queries are sequences of       *)
(* letters; a catalogue is a sequence of [id, name], whose ids are unique. *)
(*                                                                         *)
(* The query is typed one letter at a time.                                *)
(***************************************************************************)
EXTENDS Naturals, Sequences, SequencesExt

CONSTANTS
  Letters,
  Blank,       \* the letter that trim takes away
  FoldedAs,    \* Letters -> Letters: case and accents dropped
  Catalogues,  \* sequences of [id, name]
  MaxLetters   \* the longest query typed

ASSUME FoldedAsAssumption == FoldedAs \in [Letters -> Letters]
ASSUME CataloguesAssumption ==
  \A c \in Catalogues : \A i \in DOMAIN c : c[i].name \in Seq(Letters)

VARIABLES catalogue, query

nameVars == <<catalogue, query>>

--------------------------------------------------------------------------------
Fold(s) == [i \in DOMAIN s |-> FoldedAs[s[i]]]

Trim(s) ==
  LET inked == {i \in DOMAIN s : s[i] # Blank}
      first == CHOOSE i \in inked : \A j \in inked : i <= j
      last  == CHOOSE i \in inked : \A j \in inked : j <= i
  IN  IF inked = {} THEN <<>> ELSE SubSeq(s, first, last)

\* The indices of the lists whose folded name fits, by each of the three tiers.
Exact(q)    == {i \in DOMAIN catalogue : Fold(catalogue[i].name) = q}
Prefixed(q) == {i \in DOMAIN catalogue : IsPrefix(q, Fold(catalogue[i].name))}
Containing(q) ==
  {i \in DOMAIN catalogue :
     \E k \in 0 .. Len(catalogue[i].name) : IsPrefix(q, SubSeq(Fold(catalogue[i].name), k + 1, Len(catalogue[i].name)))}

\* Wrong: an ambiguous tier is passed over for the next.
FirstUnique(q) ==
  IF Len(q) = 0                                      THEN {}
  ELSE IF Exact(q) # {} /\ Prefixed(q) = Exact(q)    THEN Exact(q)
  ELSE Containing(q)

\* The first tier that has a list. One: found. More: the candidates.
Candidates(q) ==
  IF Len(q) = 0             THEN {}
  ELSE IF Exact(q) # {}     THEN Exact(q)
  ELSE IF Prefixed(q) # {}  THEN Prefixed(q)
  ELSE Containing(q)

\* server.rs: an id first, as it is; then the name, folded.
ById(s) == {i \in DOMAIN catalogue : catalogue[i].id = s}

ResolveList(s) == IF ById(s) # {} THEN ById(s) ELSE Candidates(Fold(Trim(s)))

--------------------------------------------------------------------------------
ReadCatalogue == /\ catalogue = <<>>
                 /\ catalogue' \in Catalogues
                 /\ UNCHANGED query

TypeLetter == /\ catalogue # <<>>
              /\ Len(query) < MaxLetters
              /\ \E letter \in Letters : query' = Append(query, letter)
              /\ UNCHANGED catalogue

NameInit == catalogue = <<>> /\ query = <<>>
NameNext == ReadCatalogue \/ TypeLetter
NameSpec == NameInit /\ [][NameNext]_nameVars

--------------------------------------------------------------------------------
\* Where the letters typed so far stand in a name, by the tier that found it.
Standing(q, i) ==
  LET name == Fold(catalogue[i].name)
  IN  {k \in 0 .. Len(name) - Len(q) :
         /\ IsPrefix(q, SubSeq(name, k + 1, Len(name)))
         /\ Prefixed(q) # {} => k = 0}

(***************************************************************************)
(* A query may be written to: a change goes to the list that is found. Of  *)
(* the lists a query finds or offers, typing on towards one of them keeps  *)
(* to these lists, and loses it only to one whose whole name was typed:    *)
(* more letters never turn to a list that fewer left out. The whole name   *)
(* of a list finds it, and nothing but lists of that name.                 *)
(***************************************************************************)
MoreLettersNarrow ==
  LET q == Fold(Trim(query)) IN
  ById(query) = {} =>
    /\ \A i \in ResolveList(query), k \in 0 .. MaxLetters :
         LET name   == Fold(catalogue[i].name)
             longer == Append(q, name[k + Len(q) + 1])
         IN  k \in Standing(q, i) /\ k + Len(q) < Len(name) /\ name[k + Len(q) + 1] # Blank =>
               /\ i \in Candidates(longer) \/ Exact(longer) # {}
               /\ Candidates(longer) \subseteq ResolveList(query)
    /\ \A i \in DOMAIN catalogue :
         q = Fold(catalogue[i].name) /\ q # <<>> =>
           ResolveList(query) = {j \in DOMAIN catalogue : Fold(catalogue[j].name) = q}
================================================================================
