-------------------------- MODULE CollectedDocument --------------------------
(***************************************************************************)
(* What the collectors' folds share: a Document that only grows, one item  *)
(* at a time, and its document-level fields, which the first answer keeps. *)
(***************************************************************************)
EXTENDS DocumentMerge, TLC

\* The head every fold's constructor writes, nothing yet folded.
NewDocument ==
  [groups |-> <<>>, texts |-> <<>>, pictures |-> <<>>, tables |-> <<>>, forms |-> <<>>,
   body |-> <<>>, furniture |-> <<>>, pages |-> <<>>, anchors |-> <<>>, meta |-> <<>>]

NextRef(doc, arena) == <<arena, Len(doc[arena]) + 1>>
LayerUnder(parent) == IF parent = Furniture THEN "furniture" ELSE "body"

\* An item is appended to its arena and to its parent's children together.
AddChild(doc, parent, ref) ==
  CASE parent = Body -> [doc EXCEPT !.body = Append(@, ref)]
    [] parent = Furniture -> [doc EXCEPT !.furniture = Append(@, ref)]
    [] OTHER -> [doc EXCEPT ![parent[1]][parent[2]].children = Append(@, ref)]
PutAt(doc, ref, parent, label, payload, spans) ==
  AddChild([doc EXCEPT ![ref[1]] =
              Append(@, [Item(ref, parent, label) EXCEPT !.text = payload, !.spans = spans,
                                                         !.layer = LayerUnder(parent)])],
           parent, ref)
Put(doc, arena, parent, label, payload, spans) ==
  PutAt(doc, NextRef(doc, arena), parent, label, payload, spans)

\* A document-level field keeps its first answer.
FirstAnswer(doc, field, value) ==
  IF field \in DOMAIN doc.meta THEN doc ELSE [doc EXCEPT !.meta = (field :> value) @@ @]

\* A map's value under a key, or what it is before anything was put there.
Under(map, key, default) == IF key \in DOMAIN map THEN map[key] ELSE default
Without(map, key) == [k \in DOMAIN map \ {key} |-> map[k]]
=============================================================================
