---------------------------- MODULE DocumentMerge ----------------------------
(***************************************************************************)
(* merge_documents of document_merge.cpp as the collector coordinator uses *)
(* it: arenas appended under new names, document-level fields decided by   *)
(* the standing of the collectors that answered them.                      *)
(***************************************************************************)
EXTENDS DocumentTree

CONSTANT ClaimRank   \* collector -> its standing for the document's format

\* Bug: whichever the arena, renumbered past the target's texts.
MergeArenasPastTexts(source, target) ==
  LET step == [r \in Slots(source) |-> <<r[1], r[2] + Len(target.texts)>>]
      moved == RewriteReferences(step, source)
  IN [target EXCEPT !.groups = @ \o moved.groups, !.texts = @ \o moved.texts,
        !.pictures = @ \o moved.pictures, !.tables = @ \o moved.tables, !.forms = @ \o moved.forms,
        !.body = @ \o moved.body, !.furniture = @ \o moved.furniture, !.anchors = @ \o moved.anchors,
        !.pages = [p \in DOMAIN @ \cup DOMAIN moved.pages |->
                     IF p \in DOMAIN @ THEN @[p] ELSE moved.pages[p]]]

\* The source's items follow the target's, every reference renumbered first.
MergeArenas(source, target) ==
  LET step == [r \in Slots(source) |-> <<r[1], r[2] + Len(target[r[1]])>>]
      moved == RewriteReferences(step, source)
  IN [target EXCEPT !.groups = @ \o moved.groups, !.texts = @ \o moved.texts,
        !.pictures = @ \o moved.pictures, !.tables = @ \o moved.tables, !.forms = @ \o moved.forms,
        !.body = @ \o moved.body, !.furniture = @ \o moved.furniture, !.anchors = @ \o moved.anchors,
        !.pages = [p \in DOMAIN @ \cup DOMAIN moved.pages |->
                     IF p \in DOMAIN @ THEN @[p] ELSE moved.pages[p]]]

\* Bug: a tie displaces the answer the document already carries.
ClaimantWinsTies(incumbent, challenger) ==
  ClaimRank[challenger.collector] >= ClaimRank[incumbent.collector]

\* Confidence first when both state one (0 is none), then standing; a tie
\* leaves the incumbent.
ClaimantWins(incumbent, challenger) ==
  IF 0 \notin {incumbent.confidence, challenger.confidence} /\ incumbent.confidence # challenger.confidence
  THEN challenger.confidence > incumbent.confidence
  ELSE ClaimRank[challenger.collector] > ClaimRank[incumbent.collector]

\* A field nobody answered takes the claimant's answer; one that was answered
\* changes hands only from a recorded holder the claimant beats.
MergeFields(source, target, claimant) ==
  LET taken == {f \in DOMAIN source.meta :
                  \/ f \notin DOMAIN target.meta
                  \/ f \in DOMAIN target.holders /\ ClaimantWins(target.holders[f], claimant)}
  IN [target EXCEPT
        !.meta = [f \in DOMAIN @ \cup taken |-> IF f \in taken THEN source.meta[f] ELSE @[f]],
        !.holders = [f \in DOMAIN @ \cup taken |-> IF f \in taken THEN claimant ELSE @[f]]]

\* The collector's whole account is kept beside what was decided.
MergeDocuments(source, target, claimant) ==
  LET merged == MergeFields(source, MergeArenas(source, target), claimant)
  IN IF source.meta = <<>> THEN merged
     ELSE [merged EXCEPT !.claims = Append(@, [source |-> claimant, meta |-> source.meta])]

\* Only the document-level account.
RetainClaimsOnly(doc) ==
  [doc EXCEPT !.groups = <<>>, !.texts = <<>>, !.pictures = <<>>, !.tables = <<>>, !.forms = <<>>,
              !.body = <<>>, !.furniture = <<>>, !.anchors = <<>>, !.pages = <<>>]

\* One leg of the coordinator's plan, merged in plan order: a failed leg adds
\* nothing, and a fan-out leg behind one that succeeded only its account.
MergeLeg(result, leg) ==
  LET source == IF leg.fanout /\ result.succeeded > 0 THEN RetainClaimsOnly(leg.doc) ELSE leg.doc
  IN IF ~leg.ok THEN result
     ELSE [doc |-> MergeDocuments(source, result.doc, leg.claimant),
           succeeded |-> result.succeeded + 1]
=============================================================================
