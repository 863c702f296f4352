---------------------------- MODULE MCConfigStore ----------------------------
(* One section of each kind and two requests at a time. *)
EXTENDS ConfigStore, TLC

Symmetry == Permutations(Request)

\* Sections share nothing but the device, so each behaviour writes one of them.
\* Three calls make a write, a backup and its restore, or a removal with what
\* overlaps it; the fourth is for the numbered lists alone, where two creates, a
\* delete and a create repeat an id.
Bounded ==
    LET active == {request[r] : r \in {x \in Request : ~At(x, "idle")}}
        named == {q.section : q \in active}
        touched == (named \cup {s \in Section : putBy[s] # 0}) \ {"none"}
    IN  /\ Cardinality(touched) <= 1
        /\ calls > 3 => /\ touched \subseteq NumberedSections
                        /\ "none" \notin named
                        /\ record /\ Backups = {} /\ admitted = {}

\* Only is the filter of sequences, written so that it can be proved about.
ASSUME OnlyIsFilter ==
    \A s \in UNION {[1..n -> 1..3] : n \in 0..4}, kept \in SUBSET (1..3) :
        Only(s, {i \in DOMAIN s : s[i] \in kept})
            = SelectSeq(s, LAMBDA x : x \in kept)

=============================================================================
