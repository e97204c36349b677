---------------------------- MODULE ObjectNames -----------------------------
(***************************************************************************)
(* How jpl writes the identity of an object down and reads it back: the    *)
(* keys of the inventory (pkg/resource/resourcemetadata.go) and the        *)
(* depends-on annotation (pkg/resource/dependency.go).                     *)
(*                                                                         *)
(* A text is a sequence of symbols. A symbol is one of the marks these     *)
(* conversions look at, "@" for any other mark, or a word: letters and     *)
(* digits that no conversion takes apart. An identity is a record of four  *)
(* texts: namespace, name, group and kind.                                 *)
(***************************************************************************)
EXTENDS Integers, Sequences, FiniteSets, SequencesExt

Text  == Seq(STRING)
Blank == " "
Comma == ","
Underscore == "_"
Marks == {".", "-", Underscore, ":", "/", Comma, Blank, "@"}

Begins(text, S) == Len(text) > 0 /\ text[1] \in S
Only(text, S) == \A i \in DOMAIN text : text[i] \in S
Positions(text, mark) == {i \in DOMAIN text : text[i] = mark}

\* strings.Split and strings.Join, for a separator of one mark: a text is cut
\* before it begins, at its marks and after it ends.
Split(text, mark) ==
  LET cuts == {0, Len(text) + 1} \cup Positions(text, mark)
      cut(k) == CHOOSE p \in cuts : Cardinality({q \in cuts : q < p}) = k
  IN [k \in 1..(Cardinality(cuts) - 1) |-> SubSeq(text, cut(k - 1) + 1, cut(k) - 1)]

Join(texts, mark) ==
  FlattenSeq([k \in DOMAIN texts |-> IF k = 1 THEN texts[k] ELSE <<mark>> \o texts[k]])

TrimSpace(text) ==
  LET ink == DOMAIN text \ Positions(text, Blank)
  IN IF ink = {} THEN <<>> ELSE SubSeq(text, Min(ink), Max(ink))

-----------------------------------------------------------------------------
(* The keys of the inventory. *)

\* strings.ReplaceAll(name, ":", "__")
ColonsReplaced(name) ==
  FlattenSeq([i \in DOMAIN name |-> IF name[i] = ":" THEN <<Underscore, Underscore>> ELSE <<name[i]>>])

\* Mutant: colons are replaced on the way in and left so on the way out.
ColonsLeft(name) == name

\* strings.ReplaceAll(name, "__", ":"): from the left, each pair of a run of
\* underscores turns into a colon, and an odd one is left at its end.
ColonsRestored(name) ==
  LET run(i) == Cardinality({j \in 1..i : \A k \in j..i : name[k] = Underscore})
      inside(i) == i < Len(name) /\ name[i + 1] = Underscore
  IN FlattenSeq([i \in DOMAIN name |->
       IF run(i) % 2 = 0 THEN (IF name[i] = Underscore THEN <<":">> ELSE <<name[i]>>)
       ELSE IF inside(i) THEN <<>> ELSE <<Underscore>>])

\* Mutant: the kind is written where the group is read.
KindBeforeGroup(m) ==
  Join(<<m.namespace, ColonsReplaced(m.name), m.kind, m.group>>, Underscore)

\* ObjectMetadata.ToString
MetadataToString(m) ==
  Join(<<m.namespace, ColonsReplaced(m.name), m.group, m.kind>>, Underscore)

\* Where the regular expression finds the three separators: only the name may
\* hold underscores of its own.
Separators(key) ==
  LET all == Positions(key, Underscore)
      last == Max(all)
  IN <<Min(all), Max(all \ {last}), last>>

\* The submatches of the regular expression.
Fields(key) ==
  LET s == Separators(key)
  IN [namespace |-> SubSeq(key, 1, s[1] - 1),
      name      |-> SubSeq(key, s[1] + 1, s[2] - 1),
      group     |-> SubSeq(key, s[2] + 1, s[3] - 1),
      kind      |-> SubSeq(key, s[3] + 1, Len(key))]

Matches(key, Words) ==
  /\ Cardinality(Positions(key, Underscore)) >= 3
  /\ LET f == Fields(key)
     IN /\ Only(f.namespace, Words \cup {".", "-"})
        /\ Begins(f.name, Words) /\ Only(f.name, Words \cup {".", "-", Underscore})
        /\ Only(f.group, Words \cup {".", "-"})
        /\ Only(f.kind, Words)

\* ObjectMetadataFromString, of a key that matches.
MetadataFromString(key) == [Fields(key) EXCEPT !.name = ColonsRestored(@)]

-----------------------------------------------------------------------------
(* The depends-on annotation. *)

NoText == <<"absent">>

\* formatDependencyObjectMetadata returns an error.
Malformed(m) == m.kind = <<>> \/ m.name = <<>>

\* Mutant: the namespace of a dependency is not written down.
FormatWithoutNamespace(m) == Join(<<m.group, m.kind, m.name>>, "/")

\* formatDependencyObjectMetadata
Format(m) ==
  IF m.namespace = <<>>
  THEN Join(<<m.group, m.kind, m.name>>, "/")
  ELSE Join(<<m.group, <<"namespaces">>, m.namespace, m.kind, m.name>>, "/")

\* parseDependencyObjectMetadata, of one entry: what it understands, and how.
Entry(text) == Split(TrimSpace(text), "/")

Understood(text) ==
  LET part == Entry(text)
  IN Len(part) = 3 \/ (Len(part) = 5 /\ part[2] = <<"namespaces">>)

ParseEntry(text) ==
  LET part == Entry(text)
  IN IF Len(part) = 3
     THEN [namespace |-> <<>>, group |-> part[1], kind |-> part[2], name |-> part[3]]
     ELSE [namespace |-> part[3], group |-> part[1], kind |-> part[4], name |-> part[5]]

\* The annotation SetObjectExplicitDependencies leaves on an object that has
\* the annotation old: an empty list and a malformed dependency change nothing.
WithDependencies(old, deps) ==
  IF deps = <<>> \/ \E k \in DOMAIN deps : Malformed(deps[k]) THEN old
  ELSE Join([k \in DOMAIN deps |-> Format(deps[k])], Comma)

\* ObjectExplicitDependencies: the error, and the dependencies without one.
ParseFails(text) ==
  text # NoText /\ \E k \in DOMAIN Split(text, Comma) : ~Understood(Split(text, Comma)[k])

Dependencies(text) ==
  IF text = NoText THEN <<>>
  ELSE LET entries == Split(text, Comma) IN [k \in DOMAIN entries |-> ParseEntry(entries[k])]
=============================================================================
