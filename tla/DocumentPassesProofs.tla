------------------------ MODULE DocumentPassesProofs ------------------------
(***************************************************************************)
(* Which collector's account a document-level field carries, for every     *)
(* plan: any number of legs, in any order, with and without confidences.   *)
(*                                                                         *)
(* ClaimsDecide speaks of the best of all the accounts; merge_documents    *)
(* only ever compares a newcomer with the answer in place.  The invariant  *)
(* says that the answer in place is its recorded holder's, and beats every *)
(* other account so far (FieldsHeld); one comparison then settles the      *)
(* newcomer, because Beats is transitive and total.                        *)
(*                                                                         *)
(* And what the merge does to the trees.  Renumbering shifts the names of  *)
(* a leg's items past the items that are there; the shift is injective and *)
(* leaves roots, pages and absent references alone, so a list, a parent or *)
(* a target that named an item of the leg names the same item afterwards.  *)
(* A document is Sound exactly when integrity_check finds nothing in it    *)
(* (SoundMeans), appending one sound document to another gives a sound one *)
(* (AppendKeepsSound), and so does every step of the plan (TreeHeld).      *)
(***************************************************************************)
EXTENDS DocumentPasses, SequenceTheorems, TLAPS

\* The document-level fields, who answered each, and every account given.
Fields == {"meta", "holders", "claims"}

\* The account a leg gives, those of a plan, and those that answer a field.
Account(leg) == [source |-> leg.claimant, meta |-> leg.doc.meta]
AccountsOf(legs) == {Account(legs[k]) : k \in DOMAIN legs}
Accounts(claims, f) == {k \in DOMAIN claims : f \in DOMAIN claims[k].meta}
\* Every account of the field states a confidence, or none does.
Uniform(claims, f) ==
  \/ \A k \in Accounts(claims, f) : claims[k].source.confidence = 0
  \/ \A k \in Accounts(claims, f) : claims[k].source.confidence # 0
\* One collector's answer counts for more than another's.
Outranks(s, t) ==
  s.confidence > t.confidence
  \/ (s.confidence = t.confidence /\ ClaimRank[s.collector] > ClaimRank[t.collector])
\* Account k stands before account j; of equals, the one that came first does.
Beats(claims, k, j) ==
  \/ Outranks(claims[k].source, claims[j].source)
  \/ ~Outranks(claims[j].source, claims[k].source) /\ k < j

\* The answer in place is the account of its holder, and beats the others.
FieldHeld(doc, f) ==
  \E k \in Accounts(doc.claims, f) :
    /\ doc.holders[f] = doc.claims[k].source
    /\ doc.meta[f] = doc.claims[k].meta[f]
    /\ Uniform(doc.claims, f) => \A j \in Accounts(doc.claims, f) \ {k} : Beats(doc.claims, k, j)

\* A document whose accounts are of S, and where every field is so held.
HeldIn(doc, S) ==
  /\ Fields \subseteq DOMAIN doc
  /\ doc.claims \in Seq(S)
  /\ DOMAIN doc.holders = DOMAIN doc.meta
  /\ \A k \in DOMAIN doc.claims : DOMAIN doc.claims[k].meta \subseteq DOMAIN doc.meta
  /\ \A f \in DOMAIN doc.meta : FieldHeld(doc, f)

\* The merged document is held by the accounts of this plan's legs.
FieldsHeld ==
  /\ input \in Inputs /\ at \in Nat \ {0}
  /\ HeldIn(result.doc, AccountsOf(input.legs))

-----------------------------------------------------------------------------
(* What merging writes. *)

\* The fields a newcomer answers anew: MergeFields' set.
Taken(source, target, claimant) ==
  {f \in DOMAIN source.meta :
     \/ f \notin DOMAIN target.meta
     \/ f \in DOMAIN target.holders /\ ClaimantWins(target.holders[f], claimant)}

\* Appending the arenas leaves the document-level fields alone.
LEMMA ArenasLeaveFields ==
  ASSUME NEW source, NEW target, Fields \subseteq DOMAIN target
  PROVE  /\ Fields \subseteq DOMAIN MergeArenas(source, target)
         /\ MergeArenas(source, target).meta = target.meta
         /\ MergeArenas(source, target).holders = target.holders
         /\ MergeArenas(source, target).claims = target.claims
BY DEF Fields, MergeArenas

\* What merge_documents leaves in the fields, their holders and the accounts.
Decided(merged, source, target, claimant) ==
  LET taken == Taken(source, target, claimant)
  IN /\ Fields \subseteq DOMAIN merged
     /\ merged.claims = IF source.meta = <<>> THEN target.claims
                        ELSE Append(target.claims, [source |-> claimant, meta |-> source.meta])
     /\ DOMAIN merged.meta = DOMAIN target.meta \cup taken
     /\ DOMAIN merged.holders = DOMAIN target.holders \cup taken
     /\ \A f \in DOMAIN target.meta \cup taken :
          merged.meta[f] = IF f \in taken THEN source.meta[f] ELSE target.meta[f]
     /\ \A f \in DOMAIN target.holders \cup taken :
          merged.holders[f] = IF f \in taken THEN claimant ELSE target.holders[f]

LEMMA MergeDecides ==
  ASSUME NEW source, NEW target, NEW claimant, Fields \subseteq DOMAIN target
  PROVE  Decided(MergeDocuments(source, target, claimant), source, target, claimant)
<1> DEFINE arenas == MergeArenas(source, target)
           merged == MergeFields(source, arenas, claimant)
<1>1. /\ Fields \subseteq DOMAIN arenas /\ arenas.meta = target.meta
      /\ arenas.holders = target.holders /\ arenas.claims = target.claims
  BY ArenasLeaveFields
<1>2. Taken(source, arenas, claimant) = Taken(source, target, claimant)
  BY <1>1 DEF Taken
<1> HIDE DEF arenas
<1>3. /\ Fields \subseteq DOMAIN merged /\ merged.claims = target.claims
      /\ DOMAIN merged.meta = DOMAIN target.meta \cup Taken(source, target, claimant)
      /\ DOMAIN merged.holders = DOMAIN target.holders \cup Taken(source, target, claimant)
      /\ \A f \in DOMAIN target.meta \cup Taken(source, target, claimant) :
           merged.meta[f] = IF f \in Taken(source, target, claimant) THEN source.meta[f] ELSE target.meta[f]
      /\ \A f \in DOMAIN target.holders \cup Taken(source, target, claimant) :
           merged.holders[f] = IF f \in Taken(source, target, claimant) THEN claimant ELSE target.holders[f]
  <2>1. merged = [arenas EXCEPT
          !.meta = [f \in DOMAIN @ \cup Taken(source, arenas, claimant) |->
                      IF f \in Taken(source, arenas, claimant) THEN source.meta[f] ELSE @[f]],
          !.holders = [f \in DOMAIN @ \cup Taken(source, arenas, claimant) |->
                      IF f \in Taken(source, arenas, claimant) THEN claimant ELSE @[f]]]
    BY DEF MergeFields, Taken
  <2> HIDE DEF merged
  <2> QED BY <1>1, <1>2, <2>1 DEF Fields
<1>4. MergeDocuments(source, target, claimant) =
        IF source.meta = <<>> THEN merged
        ELSE [merged EXCEPT !.claims = Append(@, [source |-> claimant, meta |-> source.meta])]
  BY DEF MergeDocuments, arenas
<1> HIDE DEF merged
<1> QED BY <1>3, <1>4 DEF Decided, Fields

\* Retaining only the account keeps the account.
LEMMA RetainKeepsMeta ==
  ASSUME NEW doc, "meta" \in DOMAIN doc
  PROVE  RetainClaimsOnly(doc).meta = doc.meta
BY DEF RetainClaimsOnly

-----------------------------------------------------------------------------
(* Standing. *)

IsSource(s) == s.confidence \in Nat /\ s.collector \in DOMAIN ClaimRank

\* Where both or neither state a confidence, the claimant wins exactly when it
\* outranks the holder.
LEMMA WinsOutranks ==
  ASSUME NEW s, NEW t, IsSource(s), IsSource(t), s.confidence = 0 <=> t.confidence = 0
  PROVE  ClaimantWins(t, s) <=> Outranks(s, t)
BY InputsAssumption DEF InputsAssumption, IsSource, ClaimantWins, Outranks

LEMMA OutranksCarries ==
  ASSUME NEW s, NEW t, NEW u, IsSource(s), IsSource(t), IsSource(u),
         Outranks(s, t), Outranks(t, u) \/ ~Outranks(u, t)
  PROVE  Outranks(s, u)
BY InputsAssumption DEF InputsAssumption, IsSource, Outranks

-----------------------------------------------------------------------------
(* One account more. *)

\* The accounts after one more are those before it and itself.
LEMMA OneMoreAccount ==
  ASSUME NEW S, NEW claims \in Seq(S), NEW account
  PROVE  LET more == Append(claims, account) IN
         /\ DOMAIN more = DOMAIN claims \cup {Len(claims) + 1}
         /\ Len(claims) + 1 \notin DOMAIN claims
         /\ more[Len(claims) + 1] = account
         /\ \A k \in DOMAIN claims : more[k] = claims[k] /\ k \in Nat /\ k < Len(claims) + 1
OBVIOUS

\* The accounts of a field after one more, the newcomer's among them when it
\* answers the field; the earlier ones unchanged.
LEMMA AccountsAfter ==
  ASSUME NEW S, NEW claims \in Seq(S), NEW account, NEW f
  PROVE  LET more == Append(claims, account)
             n == Len(claims) + 1
         IN /\ Accounts(more, f) = Accounts(claims, f) \cup
                                   (IF f \in DOMAIN account.meta THEN {n} ELSE {})
            /\ Uniform(more, f) => Uniform(claims, f)
            /\ \A k, j \in Accounts(claims, f) : Beats(more, k, j) <=> Beats(claims, k, j)
<1> DEFINE more == Append(claims, account)
           n == Len(claims) + 1
<1>1. /\ DOMAIN more = DOMAIN claims \cup {n} /\ n \notin DOMAIN claims /\ more[n] = account
      /\ \A k \in DOMAIN claims : more[k] = claims[k]
  BY OneMoreAccount
<1> HIDE DEF more, n
<1>2. Accounts(more, f) = Accounts(claims, f) \cup (IF f \in DOMAIN account.meta THEN {n} ELSE {})
  BY <1>1 DEF Accounts
<1>3. \A k \in Accounts(claims, f) : k \in Accounts(more, f) /\ more[k] = claims[k]
  BY <1>1, <1>2 DEF Accounts
<1>4. Uniform(more, f) => Uniform(claims, f)
  BY <1>3 DEF Uniform
<1>5. \A k, j \in Accounts(claims, f) : Beats(more, k, j) <=> Beats(claims, k, j)
  BY <1>3 DEF Beats
<1> QED BY <1>2, <1>4, <1>5 DEF more, n

\* Every account comes from a collector of known standing.
IsAccounts(claims) == \A k \in DOMAIN claims : IsSource(claims[k].source)

\* A field's holder before and after one more account.
LEMMA FieldMerged ==
  ASSUME NEW S, NEW old, NEW new, NEW source, NEW claimant, NEW f \in DOMAIN new.meta,
         old.claims \in Seq(S), IsAccounts(old.claims), IsSource(claimant),
         Decided(new, source, old, claimant), source.meta # <<>>,
         DOMAIN old.holders = DOMAIN old.meta,
         \A k \in DOMAIN old.claims : DOMAIN old.claims[k].meta \subseteq DOMAIN old.meta,
         f \in DOMAIN old.meta => FieldHeld(old, f)
  PROVE  FieldHeld(new, f)
<1> DEFINE account == [source |-> claimant, meta |-> source.meta]
           n == Len(old.claims) + 1
           taken == Taken(source, old, claimant)
<1>1. new.claims = Append(old.claims, account)
  BY DEF Decided
<1>2. /\ DOMAIN new.claims = DOMAIN old.claims \cup {n} /\ n \notin DOMAIN old.claims
      /\ new.claims[n] = account
      /\ \A k \in DOMAIN old.claims : new.claims[k] = old.claims[k] /\ k \in Nat /\ k < n
  BY <1>1, OneMoreAccount
<1>3. /\ Accounts(new.claims, f) = Accounts(old.claims, f) \cup (IF f \in DOMAIN source.meta THEN {n} ELSE {})
      /\ Uniform(new.claims, f) => Uniform(old.claims, f)
      /\ \A k, j \in Accounts(old.claims, f) : Beats(new.claims, k, j) <=> Beats(old.claims, k, j)
  <2>1. account.meta = source.meta
    OBVIOUS
  <2> HIDE DEF account
  <2> QED BY <1>1, <2>1, AccountsAfter DEF n
<1>4. IsAccounts(new.claims)
  BY <1>2 DEF IsAccounts
<1>5. /\ f \in DOMAIN old.meta \cup taken
      /\ new.meta[f] = IF f \in taken THEN source.meta[f] ELSE old.meta[f]
      /\ new.holders[f] = IF f \in taken THEN claimant ELSE old.holders[f]
  BY DEF Decided
<1>6. n \in Nat /\ Accounts(old.claims, f) \subseteq DOMAIN old.claims
  BY DEF Accounts
<1>7. taken \subseteq DOMAIN source.meta
  BY DEF Taken
<1>8. n \in Accounts(new.claims, f) <=> f \in DOMAIN source.meta
  BY <1>2, <1>3, <1>6
<1>9. /\ new.claims[n].source = claimant /\ new.claims[n].meta = source.meta
      /\ \A k \in Accounts(old.claims, f) : k < n /\ new.claims[k] = old.claims[k] /\ IsSource(new.claims[k].source)
  BY <1>2, <1>4, <1>6 DEF IsAccounts
<1> HIDE DEF account, n, taken
<1>10. CASE f \in taken /\ f \notin DOMAIN old.meta
  <2>1. Accounts(old.claims, f) = {}
    BY <1>10 DEF Accounts
  <2>2. Accounts(new.claims, f) \ {n} = {}
    BY <1>3, <2>1
  <2> QED BY <1>10, <1>5, <1>7, <1>8, <1>9, <2>2 DEF FieldHeld
<1>11. CASE f \in taken /\ f \in DOMAIN old.meta
  <2>1. PICK k \in Accounts(old.claims, f) :
          /\ old.holders[f] = old.claims[k].source
          /\ Uniform(old.claims, f) => \A j \in Accounts(old.claims, f) \ {k} : Beats(old.claims, k, j)
    BY <1>11 DEF FieldHeld
  <2>2. ClaimantWins(new.claims[k].source, claimant)
    BY <1>11, <1>9, <2>1 DEF taken, Taken
  <2>3. ASSUME Uniform(new.claims, f), NEW j \in Accounts(new.claims, f) \ {n}
        PROVE  Beats(new.claims, n, j)
    <3>1. j \in Accounts(old.claims, f)
      BY <1>3, <2>3
    <3>2. new.claims[k].source.confidence = 0 <=> claimant.confidence = 0
      BY <1>11, <1>3, <1>7, <1>8, <1>9, <2>3 DEF Uniform
    <3>3. Outranks(claimant, new.claims[k].source)
      BY <1>9, <2>2, <3>2, WinsOutranks
    <3>4. CASE j = k
      BY <3>3, <3>4, <1>9 DEF Beats
    <3>5. CASE j # k
      <4>1. Beats(new.claims, k, j)
        BY <1>3, <2>1, <2>3, <3>1, <3>5
      <4>2. Outranks(claimant, new.claims[j].source)
        BY <1>9, <3>1, <3>3, <4>1, OutranksCarries DEF Beats
      <4> QED BY <1>9, <4>2 DEF Beats
    <3> QED BY <3>4, <3>5
  <2> QED BY <1>11, <1>5, <1>7, <1>8, <1>9, <2>3 DEF FieldHeld
<1>12. CASE f \notin taken
  <2>1. PICK k \in Accounts(old.claims, f) :
          /\ old.holders[f] = old.claims[k].source
          /\ old.meta[f] = old.claims[k].meta[f]
          /\ Uniform(old.claims, f) => \A j \in Accounts(old.claims, f) \ {k} : Beats(old.claims, k, j)
    BY <1>12, <1>5 DEF FieldHeld
  <2>2. ASSUME Uniform(new.claims, f), NEW j \in Accounts(new.claims, f) \ {k}
        PROVE  Beats(new.claims, k, j)
    <3>1. CASE j \in Accounts(old.claims, f)
      BY <1>3, <2>1, <2>2, <3>1
    <3>2. CASE j = n /\ f \in DOMAIN source.meta
      <4>1. f \in DOMAIN old.meta
        BY <1>12, <1>5
      <4>2. ~ClaimantWins(new.claims[k].source, claimant)
        BY <1>12, <1>9, <2>1, <3>2, <4>1 DEF taken, Taken
      <4>3. new.claims[k].source.confidence = 0 <=> claimant.confidence = 0
        BY <1>3, <1>8, <1>9, <2>2, <3>2 DEF Uniform
      <4>4. ~Outranks(claimant, new.claims[k].source)
        BY <1>9, <4>2, <4>3, WinsOutranks
      <4> QED BY <1>9, <3>2, <4>4 DEF Beats
    <3> QED BY <1>3, <2>2, <3>1, <3>2
  <2>3. k \in Accounts(new.claims, f) /\ new.claims[k] = old.claims[k]
    BY <1>3, <1>9
  <2> QED BY <1>12, <1>5, <2>1, <2>2, <2>3 DEF FieldHeld
<1> QED BY <1>10, <1>11, <1>12

-----------------------------------------------------------------------------
(* One leg merged. *)

LEMMA MergeKeepsHeld ==
  ASSUME NEW S, NEW old, NEW source, NEW claimant,
         \A a \in S : IsSource(a.source), [source |-> claimant, meta |-> source.meta] \in S,
         HeldIn(old, S)
  PROVE  HeldIn(MergeDocuments(source, old, claimant), S)
<1> DEFINE new == MergeDocuments(source, old, claimant)
           account == [source |-> claimant, meta |-> source.meta]
<1>1. Decided(new, source, old, claimant)
  BY MergeDecides DEF HeldIn
<1> SUFFICES HeldIn(new, S)
  OBVIOUS
<1> HIDE DEF new
<1>2. IsSource(claimant) /\ IsAccounts(old.claims)
  <2>1. \A k \in DOMAIN old.claims : old.claims[k] \in S
    BY DEF HeldIn
  <2>2. account.source = claimant
    OBVIOUS
  <2> QED BY <2>1, <2>2 DEF IsAccounts
<1>3. CASE source.meta = <<>>
  <2>1. Taken(source, old, claimant) = {}
    BY <1>3 DEF Taken
  <2>2. /\ new.claims = old.claims /\ DOMAIN new.meta = DOMAIN old.meta /\ DOMAIN new.holders = DOMAIN old.holders
        /\ \A f \in DOMAIN old.meta : new.meta[f] = old.meta[f]
        /\ \A f \in DOMAIN old.holders : new.holders[f] = old.holders[f]
        /\ Fields \subseteq DOMAIN new
    BY <1>1, <1>3, <2>1 DEF Decided
  <2>3. \A f \in DOMAIN new.meta : FieldHeld(new, f)
    BY <2>2 DEF HeldIn, FieldHeld
  <2> QED BY <2>2, <2>3 DEF HeldIn
<1>4. CASE source.meta # <<>>
  <2>1. new.claims = Append(old.claims, account)
    BY <1>1, <1>4 DEF Decided
  <2>2. new.claims \in Seq(S)
    BY <2>1 DEF HeldIn
  <2>3. DOMAIN new.holders = DOMAIN new.meta /\ Fields \subseteq DOMAIN new
    BY <1>1 DEF Decided, HeldIn
  <2>4. DOMAIN old.meta \cup DOMAIN source.meta \subseteq DOMAIN new.meta
    BY <1>1 DEF Decided, Taken
  <2>5. ASSUME NEW k \in DOMAIN new.claims
        PROVE  DOMAIN new.claims[k].meta \subseteq DOMAIN new.meta
    <3>1. new.claims[k] = account \/ (k \in DOMAIN old.claims /\ new.claims[k] = old.claims[k])
      BY <2>1, OneMoreAccount DEF HeldIn
    <3>2. account.meta = source.meta
      OBVIOUS
    <3> QED BY <2>4, <3>1, <3>2 DEF HeldIn
  <2>6. \A f \in DOMAIN new.meta : FieldHeld(new, f)
    BY <1>1, <1>2, <1>4, FieldMerged DEF HeldIn
  <2> QED BY <2>2, <2>3, <2>5, <2>6 DEF HeldIn
<1> QED BY <1>3, <1>4

-----------------------------------------------------------------------------
(* The invariant. *)

LEMMA NextLegIsThere ==
  ASSUME FieldsHeld, MergeNextLeg
  PROVE  at \in DOMAIN input.legs
<1>1. input.legs \in Seq(ToSet(input.legs))
  BY InputsAssumption DEF InputsAssumption, IsSeq, FieldsHeld
<1>2. at \in Nat \ {0} /\ at <= Len(input.legs)
  BY DEF FieldsHeld, MergeNextLeg
<1>3. \A legs, T : legs \in Seq(T) => DOMAIN legs = 1..Len(legs) /\ Len(legs) \in Nat
  OBVIOUS
<1>4. DOMAIN input.legs = 1..Len(input.legs) /\ Len(input.legs) \in Nat
  BY <1>1, <1>3
<1> QED BY <1>2, <1>4

\* The coordinator merges the next leg of the list it was given.
LEMMA LegKeepsHeld ==
  ASSUME FieldsHeld, MergeNextLeg
  PROVE  HeldIn(result'.doc, AccountsOf(input.legs))
<1> DEFINE leg == input.legs[at]
           source == IF leg.fanout /\ result.succeeded > 0 THEN RetainClaimsOnly(leg.doc) ELSE leg.doc
           S == AccountsOf(input.legs)
<1>1. input \in Inputs /\ HeldIn(result.doc, S)
  BY DEF FieldsHeld
<1>3. at \in DOMAIN input.legs
  BY NextLegIsThere
<1>4. \A a \in S : IsSource(a.source)
  <2> SUFFICES ASSUME NEW k \in DOMAIN input.legs
               PROVE  IsSource(Account(input.legs[k]).source)
    BY DEF AccountsOf
  <2>1. Account(input.legs[k]).source = input.legs[k].claimant
    BY DEF Account
  <2>2. IsSource(input.legs[k].claimant)
    BY <1>1, InputsAssumption DEF InputsAssumption, IsSource
  <2> QED BY <2>1, <2>2
<1>5. source.meta = leg.doc.meta
  <2>1. "meta" \in DOMAIN leg.doc
    BY <1>1, <1>3, InputsAssumption DEF InputsAssumption, IsDocument
  <2>2. RetainClaimsOnly(leg.doc).meta = leg.doc.meta
    BY <2>1, RetainKeepsMeta
  <2> QED BY <2>2
<1>6. [source |-> leg.claimant, meta |-> source.meta] \in S
  BY <1>3, <1>5 DEF AccountsOf, Account
<1>7. HeldIn(MergeDocuments(source, result.doc, leg.claimant), S)
  <2> HIDE DEF S, source, leg
  <2> QED BY <1>1, <1>4, <1>6, MergeKeepsHeld
<1>8. result' = MergeLeg(result, leg)
  BY DEF MergeNextLeg
<1>9. result'.doc = result.doc \/ result'.doc = MergeDocuments(source, result.doc, leg.claimant)
  BY <1>8 DEF MergeLeg
<1> QED BY <1>1, <1>7, <1>9

\* What else the passes do leaves the merged document and the list alone.
LEMMA OthersLeaveFields ==
  ASSUME FieldsHeld, Next, ~MergeNextLeg
  PROVE  UNCHANGED <<input, result>> /\ at' \in Nat \ {0}
<1> USE DEF FieldsHeld
<1>1. CASE AllMerged
  BY <1>1 DEF AllMerged, Open
<1>2. CASE SendPage
  BY <1>2 DEF SendPage
<1>3. CASE DocumentArrives
  BY <1>3 DEF DocumentArrives, Open
<1>4. CASE SettleFold
  BY <1>4 DEF SettleFold
<1>5. ASSUME NEW name, NEW repaired, Pass(name, repaired)
      PROVE  UNCHANGED <<input, result>> /\ at' \in Nat \ {0}
  BY <1>5 DEF Pass
<1>6. CASE Demote \/ SplitHeadings \/ SplitRows \/ InferHeadings \/ OrderBody \/ Continuations
  BY <1>5, <1>6 DEF Demote, SplitHeadings, SplitRows, InferHeadings, OrderBody, Continuations
<1>7. CASE Hyphens \/ Migrate \/ Orphans \/ WrapChildren \/ EmptyGroupsGo
  BY <1>5, <1>7 DEF Hyphens, Migrate, Orphans, WrapChildren, EmptyGroupsGo
<1>8. CASE Repaired
  BY <1>8 DEF Repaired
<1>9. CASE Deliver
  BY <1>9 DEF Deliver
<1>10. CASE DeliverProjected
  BY <1>10 DEF DeliverProjected
<1>11. CASE Chunk
  BY <1>11 DEF Chunk
<1>12. CASE Rest
  BY <1>12 DEF Rest, vars
<1> QED BY <1>1, <1>2, <1>3, <1>4, <1>6, <1>7, <1>8, <1>9, <1>10, <1>11, <1>12 DEF Next

LEMMA FieldsHeldStep == FieldsHeld /\ [Next]_vars => FieldsHeld'
<1> SUFFICES ASSUME FieldsHeld, [Next]_vars PROVE FieldsHeld'
  OBVIOUS
<1>1. CASE MergeNextLeg
  <2>1. HeldIn(result'.doc, AccountsOf(input.legs))
    BY <1>1, LegKeepsHeld
  <2>2. input' = input /\ at' = at + 1
    BY <1>1 DEF MergeNextLeg
  <2> QED BY <2>1, <2>2 DEF FieldsHeld
<1>2. CASE Next /\ ~MergeNextLeg
  <2>1. UNCHANGED <<input, result>> /\ at' \in Nat \ {0}
    BY <1>2, OthersLeaveFields
  <2> QED BY <2>1 DEF FieldsHeld
<1>3. CASE UNCHANGED vars
  BY <1>3 DEF FieldsHeld, vars
<1> QED BY <1>1, <1>2, <1>3

\* Before the first leg nothing is answered.
LEMMA FieldsHeldInit == Init => FieldsHeld
<1> SUFFICES ASSUME Init PROVE FieldsHeld
  OBVIOUS
<1>1. result.doc = EmptyDocument /\ input \in Inputs /\ at = 1
  BY DEF Init
<1>2. HeldIn(EmptyDocument, AccountsOf(input.legs))
  BY DEF HeldIn, EmptyDocument, Fields
<1> QED BY <1>1, <1>2 DEF FieldsHeld

\* The answer in place is its recorded holder's, and that account beats every
\* other one so far (merge_fields of document_merge.cpp).
THEOREM FieldsAlwaysHeld == Spec => []FieldsHeld
BY FieldsHeldInit, FieldsHeldStep, PTL DEF Spec

-----------------------------------------------------------------------------
(* The best of all the accounts. *)

Standing(claims, f, k) ==
  <<IF {j \in Accounts(claims, f) : claims[j].source.confidence > 0} = {} THEN 0
    ELSE -claims[k].source.confidence, -ClaimRank[claims[k].source.collector], k>>

\* Two triples compare as numbers do.
LEMMA LexLessTriple ==
  ASSUME NEW a \in Int, NEW b \in Int, NEW c \in Int, NEW x \in Int, NEW y \in Int, NEW z \in Int
  PROVE  LexLess(<<a, b, c>>, <<x, y, z>>) <=> a < x \/ (a = x /\ b < y) \/ (a = x /\ b = y /\ c < z)
<1> DEFINE s == <<a, b, c>>
           t == <<x, y, z>>
<1>1. /\ DOMAIN s = {1, 2, 3} /\ s[1] = a /\ s[2] = b /\ s[3] = c
      /\ t[1] = x /\ t[2] = y /\ t[3] = z
  OBVIOUS
<1> HIDE DEF s, t
<1>2. LexLess(s, t) <=> \E k \in {1, 2, 3} : s[k] < t[k] /\ \A j \in 1..(k - 1) : s[j] = t[j]
  BY <1>1 DEF LexLess
<1>3. 1..(1 - 1) = {} /\ 1..(2 - 1) = {1} /\ 1..(3 - 1) = {1, 2}
  OBVIOUS
<1> QED BY <1>1, <1>2, <1>3 DEF s, t

\* The order of the accounts is the order of their standings.
LEMMA BeatsIsStanding ==
  ASSUME NEW claims, NEW f, IsAccounts(claims), DOMAIN claims \subseteq Nat, Uniform(claims, f),
         NEW k \in Accounts(claims, f), NEW j \in Accounts(claims, f), k # j
  PROVE  LexLess(Standing(claims, f, k), Standing(claims, f, j)) <=> Beats(claims, k, j)
<1> DEFINE s == claims[k].source
           t == claims[j].source
           none == {i \in Accounts(claims, f) : claims[i].source.confidence > 0} = {}
           c(i) == IF none THEN 0 ELSE -claims[i].source.confidence
<1>1. /\ s.confidence \in Nat /\ t.confidence \in Nat /\ k \in Nat /\ j \in Nat
      /\ ClaimRank[s.collector] \in Int /\ ClaimRank[t.collector] \in Int
  BY InputsAssumption DEF InputsAssumption, IsAccounts, IsSource, Accounts
<1>2. none => s.confidence = 0 /\ t.confidence = 0
  BY <1>1
<1>3. c(k) = -s.confidence /\ c(j) = -t.confidence
  BY <1>1, <1>2
<1>4. /\ Standing(claims, f, k) = <<-s.confidence, -ClaimRank[s.collector], k>>
      /\ Standing(claims, f, j) = <<-t.confidence, -ClaimRank[t.collector], j>>
  BY <1>3 DEF Standing
<1> HIDE DEF s, t, none, c
<1>5. LexLess(Standing(claims, f, k), Standing(claims, f, j)) <=>
        \/ -s.confidence < -t.confidence
        \/ -s.confidence = -t.confidence /\ -ClaimRank[s.collector] < -ClaimRank[t.collector]
        \/ /\ -s.confidence = -t.confidence /\ -ClaimRank[s.collector] = -ClaimRank[t.collector]
           /\ k < j
  <2> DEFINE a == -s.confidence
             b == -ClaimRank[s.collector]
             x == -t.confidence
             y == -ClaimRank[t.collector]
  <2>1. a \in Int /\ b \in Int /\ k \in Int /\ x \in Int /\ y \in Int /\ j \in Int
    BY <1>1
  <2>2. /\ Standing(claims, f, k) = <<a, b, k>>
        /\ Standing(claims, f, j) = <<x, y, j>>
    BY <1>4
  <2> HIDE DEF a, b, x, y
  <2>3. LexLess(<<a, b, k>>, <<x, y, j>>) <=> a < x \/ (a = x /\ b < y) \/ (a = x /\ b = y /\ k < j)
    BY <2>1, LexLessTriple
  <2> QED BY <2>2, <2>3 DEF a, b, x, y
<1>6. Beats(claims, k, j) <=> (Outranks(s, t) \/ (~Outranks(t, s) /\ k < j))
  BY DEF Beats, s, t
<1> QED BY <1>1, <1>5, <1>6 DEF Outranks

\* An account that beats every other is the one whose standing comes first.
LEMMA HolderIsBest ==
  ASSUME NEW claims, NEW f, IsAccounts(claims), DOMAIN claims \subseteq Nat, Uniform(claims, f),
         NEW k \in Accounts(claims, f), \A j \in Accounts(claims, f) \ {k} : Beats(claims, k, j)
  PROVE  k = CHOOSE b \in Accounts(claims, f) :
               \A j \in Accounts(claims, f) \ {b} :
                 LexLess(Standing(claims, f, b), Standing(claims, f, j))
<1> DEFINE First(b) == \A j \in Accounts(claims, f) \ {b} :
                         LexLess(Standing(claims, f, b), Standing(claims, f, j))
<1>1. First(k)
  BY BeatsIsStanding
<1>2. ASSUME NEW b \in Accounts(claims, f), First(b)
      PROVE  b = k
  <2> SUFFICES ASSUME b # k PROVE FALSE
    OBVIOUS
  <2>1. Beats(claims, b, k) /\ Beats(claims, k, b)
    BY <1>2, BeatsIsStanding
  <2>2. IsSource(claims[b].source) /\ IsSource(claims[k].source) /\ b \in Nat /\ k \in Nat
    BY DEF IsAccounts, Accounts
  <2> QED BY <2>1, <2>2, InputsAssumption DEF InputsAssumption, Beats, Outranks, IsSource
<1> HIDE DEF First
<1>3. k = CHOOSE b \in Accounts(claims, f) : First(b)
  BY <1>1, <1>2
<1> QED BY <1>3 DEF First

LEMMA HeldDecides == FieldsHeld => ClaimsDecide
<1> DEFINE claims == result.doc.claims
           Stated(f) == {k \in Accounts(claims, f) : claims[k].source.confidence > 0}
           Best(f) == CHOOSE b \in Accounts(claims, f) :
                        \A j \in Accounts(claims, f) \ {b} :
                          LexLess(Standing(claims, f, b), Standing(claims, f, j))
<1> SUFFICES ASSUME FieldsHeld,
                    NEW f \in DOMAIN result.doc.meta, Stated(f) \in {{}, Accounts(claims, f)}
             PROVE  result.doc.meta[f] = claims[Best(f)].meta[f]
  BY DEF ClaimsDecide, Accounts, Standing
<1>1. HeldIn(result.doc, AccountsOf(input.legs)) /\ input \in Inputs
  BY DEF FieldsHeld
<1>2. claims \in Seq(AccountsOf(input.legs))
  BY <1>1 DEF HeldIn
<1>3. \A a \in AccountsOf(input.legs) : IsSource(a.source)
  BY <1>1, InputsAssumption DEF InputsAssumption, AccountsOf, Account, IsSource
<1>4. DOMAIN claims \subseteq Nat /\ IsAccounts(claims)
  <2>1. \A q, T : q \in Seq(T) => DOMAIN q \subseteq Nat /\ \A k \in DOMAIN q : q[k] \in T
    OBVIOUS
  <2> HIDE DEF claims
  <2> QED BY <1>2, <1>3, <2>1 DEF IsAccounts
<1>5. \A k \in Accounts(claims, f) : claims[k].source.confidence \in Nat
  BY <1>4 DEF IsAccounts, IsSource, Accounts
<1>6. Uniform(claims, f)
  <2> HIDE DEF claims
  <2> QED BY <1>5 DEF Uniform
<1>7. PICK k \in Accounts(claims, f) :
        /\ result.doc.meta[f] = claims[k].meta[f]
        /\ \A j \in Accounts(claims, f) \ {k} : Beats(claims, k, j)
  BY <1>1, <1>6 DEF HeldIn, FieldHeld
<1> HIDE DEF claims
<1>8. k = Best(f)
  BY <1>4, <1>6, <1>7, HolderIsBest
<1> HIDE DEF Best
<1> QED BY <1>7, <1>8

\* Whatever the plan and the order its legs come in, a document-level field
\* carries the answer of the best account of it (collector_coordinator's merge
\* in plan order, claimant_wins).
THEOREM ClaimsAlwaysDecide == Spec => []ClaimsDecide
BY FieldsAlwaysHeld, HeldDecides, PTL

-----------------------------------------------------------------------------
(* The shape of a document. *)

LEMMA ArenasAre == Arenas = {"groups", "texts", "pictures", "tables", "forms"}
<1>1. DOMAIN ArenaOrder = {1, 2, 3, 4, 5}
  BY DEF ArenaOrder
<1>2. /\ ArenaOrder[1] = "groups" /\ ArenaOrder[2] = "texts" /\ ArenaOrder[3] = "pictures"
      /\ ArenaOrder[4] = "tables" /\ ArenaOrder[5] = "forms"
  BY DEF ArenaOrder
<1> QED BY <1>1, <1>2 DEF Arenas, ToSet

\* A sequence written out position by position.
LEMMA SeqIs ==
  ASSUME NEW s, IsSeq(s)
  PROVE  DOMAIN s = 1..Len(s) /\ Len(s) \in Nat
BY DEF IsSeq

LEMMA MappedIsSeq ==
  ASSUME NEW s, IsSeq(s), NEW f, DOMAIN f = DOMAIN s, f = [i \in DOMAIN s |-> f[i]]
  PROVE  IsSeq(f) /\ Len(f) = Len(s)
<1>1. DOMAIN s = 1..Len(s) /\ Len(s) \in Nat
  BY SeqIs
<1>2. f \in [1..Len(s) -> ToSet(f)]
  BY <1>1 DEF ToSet
<1> QED BY <1>1, <1>2 DEF IsSeq

LEMMA AsTupleSame ==
  ASSUME NEW f, IsSeq(f)
  PROVE  AsTuple(f) = f
BY DEF IsSeq, AsTuple

\* Two sequences after one another.
Joins(j, s, t) ==
  /\ IsSeq(j)
  /\ \A i \in DOMAIN s : i \in DOMAIN j /\ j[i] = s[i]
  /\ \A i \in DOMAIN t : i + Len(s) \in DOMAIN j /\ j[i + Len(s)] = t[i]
  /\ \A k \in DOMAIN j : k \in DOMAIN s \/ \E i \in DOMAIN t : k = i + Len(s)
  /\ ToSet(j) = ToSet(s) \cup ToSet(t)
LEMMA Joining ==
  ASSUME NEW s, NEW t, IsSeq(s), IsSeq(t)
  PROVE  Joins(s \o t, s, t)
<1> DEFINE j == s \o t
<1>1. DOMAIN s = 1..Len(s) /\ Len(s) \in Nat /\ DOMAIN t = 1..Len(t) /\ Len(t) \in Nat
  BY SeqIs
<1>2. s \in Seq(ToSet(s) \cup ToSet(t)) /\ t \in Seq(ToSet(s) \cup ToSet(t))
  BY <1>1 DEF IsSeq
<1>3. /\ j \in Seq(ToSet(s) \cup ToSet(t)) /\ Len(j) = Len(s) + Len(t) /\ DOMAIN j = 1..Len(j)
      /\ \A i \in 1..Len(s) + Len(t) : j[i] = IF i <= Len(s) THEN s[i] ELSE t[i - Len(s)]
  BY <1>2
<1> HIDE DEF j
<1>4. \A i \in DOMAIN s : i \in DOMAIN j /\ j[i] = s[i]
  BY <1>1, <1>3
<1>5. \A i \in DOMAIN t : i + Len(s) \in DOMAIN j /\ j[i + Len(s)] = t[i]
  BY <1>1, <1>3
<1>6. ASSUME NEW k \in DOMAIN j
      PROVE  k \in DOMAIN s \/ \E i \in DOMAIN t : k = i + Len(s)
  <2>1. CASE k <= Len(s)
    BY <1>1, <1>3, <1>6, <2>1
  <2>2. CASE ~(k <= Len(s))
    <3>1. k - Len(s) \in DOMAIN t /\ k = (k - Len(s)) + Len(s)
      BY <1>1, <1>3, <1>6, <2>2
    <3> QED BY <3>1
  <2> QED BY <2>1, <2>2
<1>7. ToSet(j) = ToSet(s) \cup ToSet(t)
  <2>1. ToSet(s) \subseteq ToSet(j)
    BY <1>4 DEF ToSet
  <2>2. ToSet(t) \subseteq ToSet(j)
    BY <1>5 DEF ToSet
  <2>3. ToSet(j) \subseteq ToSet(s) \cup ToSet(t)
    BY <1>4, <1>5, <1>6 DEF ToSet
  <2> QED BY <2>1, <2>2, <2>3
<1>8. IsSeq(j)
  BY <1>3, <1>7 DEF IsSeq
<1>9. Joins(j, s, t)
  BY <1>4, <1>5, <1>6, <1>7, <1>8 DEF Joins
<1> QED BY <1>9 DEF j

-----------------------------------------------------------------------------
(* What renumbering writes. *)

\* rewrite_refs on a span, and on an item: every reference it carries.
Retargeted(step, span) == [span EXCEPT !.target = Renamed(step, @)]
RenamedItem(step, n) ==
  [n EXCEPT !.self = Renamed(step, @), !.parent = Renamed(step, @),
            !.children = [i \in DOMAIN @ |-> Renamed(step, @[i])],
            !.captions = [i \in DOMAIN @ |-> Renamed(step, @[i])],
            !.cells = [i \in DOMAIN @ |-> Renamed(step, @[i])],
            !.spans = [i \in DOMAIN @ |-> Retargeted(step, @[i])]]

LEMMA RenamedFields ==
  ASSUME NEW step, NEW n, IsItem(n)
  PROVE  LET m == RenamedItem(step, n) IN
         /\ IsItem(m)
         /\ m.self = Renamed(step, n.self) /\ m.parent = Renamed(step, n.parent)
         /\ m.children = [i \in DOMAIN n.children |-> Renamed(step, n.children[i])]
         /\ DOMAIN m.spans = DOMAIN n.spans
         /\ \A i \in DOMAIN n.spans : m.spans[i].target = Renamed(step, n.spans[i].target)
         /\ m.prov = n.prov
<1> DEFINE m == RenamedItem(step, n)
<1>1. ItemFields \subseteq DOMAIN n /\ IsSeq(n.children) /\ IsSeq(n.spans) /\ IsSeq(n.prov)
  BY DEF IsItem
<1>2. /\ DOMAIN m = DOMAIN n
      /\ m.self = Renamed(step, n.self) /\ m.parent = Renamed(step, n.parent)
      /\ m.children = [i \in DOMAIN n.children |-> Renamed(step, n.children[i])]
      /\ m.spans = [i \in DOMAIN n.spans |-> Retargeted(step, n.spans[i])]
      /\ m.prov = n.prov
  BY <1>1 DEF RenamedItem, ItemFields
<1> HIDE DEF m
<1>3. IsSeq(m.children) /\ IsSeq(m.spans)
  BY <1>1, <1>2, MappedIsSeq
<1>4. \A i \in DOMAIN n.spans : /\ "target" \in DOMAIN m.spans[i]
                                /\ m.spans[i].target = Renamed(step, n.spans[i].target)
  BY <1>2 DEF IsItem, Retargeted
<1> QED BY <1>1, <1>2, <1>3, <1>4 DEF IsItem, m

\* rewrite_refs renames in place: every item stays at its position.
Rewritten(moved, step, doc) ==
  /\ \A a \in Arenas : /\ IsSeq(moved[a]) /\ DOMAIN moved[a] = DOMAIN doc[a]
                       /\ \A i \in DOMAIN doc[a] : moved[a][i] = RenamedItem(step, doc[a][i])
  /\ \A a \in {"body", "furniture", "anchors"} :
       /\ IsSeq(moved[a]) /\ moved[a] = [i \in DOMAIN doc[a] |-> Renamed(step, doc[a][i])]
  /\ moved.pages = doc.pages
LEMMA RewriteGives ==
  ASSUME NEW step, NEW doc, IsDocument(doc)
  PROVE  Rewritten(RewriteReferences(step, doc), step, doc)
<1> DEFINE Items(a) == [i \in DOMAIN doc[a] |-> RenamedItem(step, doc[a][i])]
           moved == RewriteReferences(step, doc)
<1>1. Lists \cup {"pages"} \subseteq DOMAIN doc /\ \A a \in Lists : IsSeq(doc[a])
  BY DEF IsDocument
<1>2. \A a \in Arenas : IsSeq(Items(a)) /\ AsTuple(Items(a)) = Items(a)
  <2> TAKE a \in Arenas
  <2>1. IsSeq(doc[a])
    BY <1>1 DEF Lists
  <2>2. DOMAIN Items(a) = DOMAIN doc[a] /\ Items(a) = [i \in DOMAIN doc[a] |-> Items(a)[i]]
    OBVIOUS
  <2> HIDE DEF Items
  <2> QED BY <2>1, <2>2, MappedIsSeq, AsTupleSame
<1>3. moved = [WithArenas(doc, [a \in Arenas |-> AsTuple(Items(a))]) EXCEPT
                 !.body = [i \in DOMAIN @ |-> Renamed(step, @[i])],
                 !.furniture = [i \in DOMAIN @ |-> Renamed(step, @[i])],
                 !.anchors = [i \in DOMAIN @ |-> Renamed(step, @[i])]]
  BY DEF RewriteReferences, MapItems, RenamedItem, Retargeted
<1> HIDE DEF Items, moved
<1>4. \A a \in Arenas : [b \in Arenas |-> AsTuple(Items(b))][a] = Items(a)
  BY <1>2
<1>5. /\ \A a \in Arenas : moved[a] = Items(a)
      /\ moved.body = [i \in DOMAIN doc.body |-> Renamed(step, doc.body[i])]
      /\ moved.furniture = [i \in DOMAIN doc.furniture |-> Renamed(step, doc.furniture[i])]
      /\ moved.anchors = [i \in DOMAIN doc.anchors |-> Renamed(step, doc.anchors[i])]
      /\ moved.pages = doc.pages
  BY <1>1, <1>3, <1>4, ArenasAre DEF WithArenas, Lists
<1>6. IsSeq(moved.body) /\ IsSeq(moved.furniture) /\ IsSeq(moved.anchors)
  BY <1>1, <1>5, MappedIsSeq DEF Lists
<1>7. \A a \in Arenas : /\ IsSeq(moved[a]) /\ DOMAIN moved[a] = DOMAIN doc[a]
                          /\ \A i \in DOMAIN doc[a] : moved[a][i] = RenamedItem(step, doc[a][i])
  <2> TAKE a \in Arenas
  <2>1. DOMAIN Items(a) = DOMAIN doc[a] /\ \A i \in DOMAIN doc[a] : Items(a)[i] = RenamedItem(step, doc[a][i])
    BY DEF Items
  <2> QED BY <1>2, <1>5, <2>1
<1>8. Rewritten(moved, step, doc)
  BY <1>5, <1>6, <1>7 DEF Rewritten
<1> QED BY <1>8 DEF moved

-----------------------------------------------------------------------------
(* What appending writes. *)

\* The step of MergeArenas: a source reference, past the target's items.
Shift(target, r) == <<r[1], r[2] + Len(target[r[1]])>>
ShiftStep(source, target) == [r \in Slots(source) |-> Shift(target, r)]

LEMMA SlotsAre ==
  ASSUME NEW doc, NEW r
  PROVE  /\ r \in Slots(doc) => \E a, i : a \in Arenas /\ i \in DOMAIN doc[a] /\ r = <<a, i>>
         /\ \A a \in Arenas : \A i \in DOMAIN doc[a] : <<a, i>> \in Slots(doc)
BY DEF Slots

\* The arenas and lists of a document after another was appended to it.
Appended(merged, source, target) ==
  LET step == ShiftStep(source, target)
      moved == RewriteReferences(step, source)
  IN /\ Lists \cup {"pages", "meta"} \subseteq DOMAIN merged
     /\ \A a \in Lists : merged[a] = target[a] \o moved[a]
     /\ DOMAIN merged.pages = DOMAIN target.pages \cup DOMAIN source.pages

LEMMA MergeAppends ==
  ASSUME NEW source, NEW target, IsDocument(source), IsDocument(target)
  PROVE  Appended(MergeArenas(source, target), source, target)
<1> DEFINE step == ShiftStep(source, target)
           moved == RewriteReferences(step, source)
           merged == MergeArenas(source, target)
<1>1. moved.pages = source.pages
  BY RewriteGives DEF Rewritten
<1>2. Lists \cup {"pages", "meta"} \subseteq DOMAIN target
  BY DEF IsDocument
<1>3. merged = [target EXCEPT !.groups = @ \o moved.groups, !.texts = @ \o moved.texts,
                  !.pictures = @ \o moved.pictures, !.tables = @ \o moved.tables, !.forms = @ \o moved.forms,
                  !.body = @ \o moved.body, !.furniture = @ \o moved.furniture, !.anchors = @ \o moved.anchors,
                  !.pages = [p \in DOMAIN @ \cup DOMAIN moved.pages |->
                               IF p \in DOMAIN @ THEN @[p] ELSE moved.pages[p]]]
  BY DEF MergeArenas, ShiftStep, Shift
<1>4. Lists = {"groups", "texts", "pictures", "tables", "forms", "body", "furniture", "anchors"}
  BY ArenasAre DEF Lists
<1> HIDE DEF moved, merged
<1>5. /\ DOMAIN merged = DOMAIN target /\ DOMAIN merged.pages = DOMAIN target.pages \cup DOMAIN moved.pages
      /\ merged.groups = target.groups \o moved.groups /\ merged.texts = target.texts \o moved.texts
      /\ merged.pictures = target.pictures \o moved.pictures /\ merged.tables = target.tables \o moved.tables
      /\ merged.forms = target.forms \o moved.forms /\ merged.body = target.body \o moved.body
      /\ merged.furniture = target.furniture \o moved.furniture
      /\ merged.anchors = target.anchors \o moved.anchors
  BY <1>2, <1>3, <1>4
<1>6. \A a \in Lists : merged[a] = target[a] \o moved[a]
  BY <1>4, <1>5
<1> QED BY <1>1, <1>2, <1>5, <1>6 DEF Appended, moved, merged

\* Where the items of both are afterwards: the target's where they were, the
\* source's behind them under the shifted names.
ItemsHeld(merged, source, target) ==
  /\ \A r \in Slots(target) : r \in Slots(merged) /\ At(merged, r) = At(target, r)
  /\ \A r \in Slots(source) :
       /\ Shift(target, r) \in Slots(merged)
       /\ At(merged, Shift(target, r)) = RenamedItem(ShiftStep(source, target), At(source, r))
  /\ \A r \in Slots(merged) : r \in Slots(target) \/ \E s \in Slots(source) : r = Shift(target, s)
  /\ \A a \in Lists : IsSeq(merged[a])
  /\ \A a \in {"body", "furniture", "anchors"} :
       ToSet(merged[a]) = ToSet(target[a]) \cup {Renamed(ShiftStep(source, target), r) : r \in ToSet(source[a])}
LEMMA ItemsAfter ==
  ASSUME NEW source, NEW target, NEW merged, IsDocument(source), IsDocument(target),
         Appended(merged, source, target)
  PROVE  ItemsHeld(merged, source, target)
<1> DEFINE step == ShiftStep(source, target)
           moved == RewriteReferences(step, source)
<1>1. Rewritten(moved, step, source)
  BY RewriteGives
<1>2. \A a \in Lists : IsSeq(target[a]) /\ IsSeq(source[a]) /\ IsSeq(moved[a]) /\ merged[a] = target[a] \o moved[a]
  BY <1>1 DEF IsDocument, Lists, Appended, Rewritten
<1> HIDE DEF moved, step
<1>3. \A a \in Lists : Joins(merged[a], target[a], moved[a])
  BY <1>2, Joining
<1>4. Arenas \subseteq Lists
  BY DEF Lists
<1>5. ASSUME NEW r \in Slots(target)
      PROVE  r \in Slots(merged) /\ At(merged, r) = At(target, r)
  <2>1. PICK a, i : a \in Arenas /\ i \in DOMAIN target[a] /\ r = <<a, i>>
    BY <1>5, SlotsAre
  <2>2. i \in DOMAIN merged[a] /\ merged[a][i] = target[a][i]
    BY <1>3, <1>4, <2>1 DEF Joins
  <2> QED BY <2>1, <2>2, SlotsAre DEF At
<1>6. ASSUME NEW r \in Slots(source)
      PROVE  /\ Shift(target, r) \in Slots(merged)
             /\ At(merged, Shift(target, r)) = RenamedItem(step, At(source, r))
  <2>1. PICK a, i : a \in Arenas /\ i \in DOMAIN source[a] /\ r = <<a, i>>
    BY <1>6, SlotsAre
  <2>2. Shift(target, r) = <<a, i + Len(target[a])>>
    BY <2>1 DEF Shift
  <2>3. i + Len(target[a]) \in DOMAIN merged[a] /\ merged[a][i + Len(target[a])] = RenamedItem(step, source[a][i])
    BY <1>1, <1>3, <1>4, <2>1 DEF Joins, Rewritten
  <2> QED BY <2>1, <2>2, <2>3, SlotsAre DEF At
<1>7. ASSUME NEW r \in Slots(merged)
      PROVE  r \in Slots(target) \/ \E s \in Slots(source) : r = Shift(target, s)
  <2>1. PICK a, k : a \in Arenas /\ k \in DOMAIN merged[a] /\ r = <<a, k>>
    BY <1>7, SlotsAre
  <2>2. CASE k \in DOMAIN target[a]
    BY <2>1, <2>2, SlotsAre
  <2>3. ASSUME NEW i \in DOMAIN source[a], k = i + Len(target[a])
        PROVE  \E s \in Slots(source) : r = Shift(target, s)
    <3>1. <<a, i>> \in Slots(source) /\ Shift(target, <<a, i>>) = r
      BY <2>1, <2>3, SlotsAre DEF Shift
    <3> QED BY <3>1
  <2> QED BY <1>1, <1>3, <1>4, <2>1, <2>2, <2>3 DEF Joins, Rewritten
<1>8. ASSUME NEW a \in {"body", "furniture", "anchors"}
      PROVE  ToSet(merged[a]) = ToSet(target[a]) \cup {Renamed(step, r) : r \in ToSet(source[a])}
  <2>1. moved[a] = [i \in DOMAIN source[a] |-> Renamed(step, source[a][i])]
    BY <1>1, <1>8 DEF Rewritten
  <2>2. ToSet(moved[a]) = {Renamed(step, r) : r \in ToSet(source[a])}
    BY <2>1 DEF ToSet
  <2> QED BY <1>3, <1>8, <2>2 DEF Joins, Lists
<1>9. \A a \in Lists : IsSeq(merged[a])
  BY <1>3 DEF Joins
<1> QED BY <1>5, <1>6, <1>7, <1>8, <1>9 DEF step, ItemsHeld

-----------------------------------------------------------------------------
(* A sound document, and one that two of them merge into. *)

\* The names there are: the roots, the items and the pages.
RefsOf(doc) == Roots \cup Slots(doc) \cup ({"pages"} \X DOMAIN doc.pages)
\* What a parent is said to be lists the child.
ListedUnder(doc, p, s) ==
  \/ p = Body /\ s \in ToSet(doc.body)
  \/ p = Furniture /\ s \in ToSet(doc.furniture)
  \/ p \in Slots(doc) /\ s \in ToSet(At(doc, p).children)
\* An item named by its place, whose references resolve and whose parent lists
\* it, on a page that is one.
SoundItem(doc, s) ==
  LET n == At(doc, s) IN
  /\ n.self = s
  /\ ToSet(n.children) \subseteq RefsOf(doc)
  /\ n.parent = NoRef \/ ListedUnder(doc, n.parent, s)
  /\ \A e \in ToSet(n.prov) : ~(e.page < 1)
  /\ \A sp \in ToSet(n.spans) : sp.target \in RefsOf(doc) \cup {NoRef}
\* A document of such items, whose lists and anchors resolve.
Sound(doc) ==
  /\ \A s \in Slots(doc) : SoundItem(doc, s)
  /\ ToSet(doc.body) \cup ToSet(doc.furniture) \subseteq RefsOf(doc)
  /\ ToSet(doc.anchors) \subseteq RefsOf(doc) \cup {NoRef}

\* No root, no page and no missing reference is an item.
LEMMA SlotsApart ==
  ASSUME NEW doc
  PROVE  /\ Body \notin Slots(doc) /\ Furniture \notin Slots(doc) /\ NoRef \notin RefsOf(doc)
         /\ Body # Furniture /\ Body # NoRef /\ Furniture # NoRef
         /\ \A p : <<"pages", p>> \notin Slots(doc)
<1>1. \A r \in Slots(doc) : r[1] \in {"groups", "texts", "pictures", "tables", "forms"}
  BY SlotsAre, ArenasAre
<1>2. \A r \in {"pages"} \X DOMAIN doc.pages : r[1] = "pages"
  OBVIOUS
<1> QED BY <1>1, <1>2 DEF Body, Furniture, NoRef, RefsOf, Roots

LEMMA ItemsAreItems ==
  ASSUME NEW doc, IsDocument(doc), NEW s \in Slots(doc)
  PROVE  IsItem(At(doc, s))
BY SlotsAre DEF IsDocument, At

\* A name of the source, renumbered, is a name of the merged document.
LEMMA NamesCarry ==
  ASSUME NEW source, NEW target, NEW merged,
         Appended(merged, source, target), ItemsHeld(merged, source, target)
  PROVE  /\ RefsOf(target) \subseteq RefsOf(merged)
         /\ \A r \in RefsOf(source) : Renamed(ShiftStep(source, target), r) \in RefsOf(merged)
         /\ Renamed(ShiftStep(source, target), NoRef) = NoRef
         /\ \A r \in Slots(source) : Renamed(ShiftStep(source, target), r) = Shift(target, r)
         /\ Renamed(ShiftStep(source, target), Body) = Body
         /\ Renamed(ShiftStep(source, target), Furniture) = Furniture
<1> DEFINE step == ShiftStep(source, target)
<1>1. DOMAIN step = Slots(source) /\ \A r \in Slots(source) : step[r] = Shift(target, r)
  BY DEF ShiftStep
<1> HIDE DEF step
<1>2. \A r \in Slots(source) : Renamed(step, r) = Shift(target, r) /\ Shift(target, r) \in Slots(merged)
  BY <1>1 DEF Renamed, ItemsHeld
<1>3. \A r : r \notin Slots(source) => Renamed(step, r) = r
  BY <1>1 DEF Renamed
<1>4. RefsOf(target) \subseteq RefsOf(merged)
  BY DEF RefsOf, ItemsHeld, Appended
<1>5. ASSUME NEW r \in RefsOf(source)
      PROVE  Renamed(step, r) \in RefsOf(merged)
  <2>1. CASE r \in Slots(source)
    BY <1>2, <2>1 DEF RefsOf
  <2>2. CASE r \notin Slots(source)
    <3>1. Renamed(step, r) = r
      BY <1>3, <2>2
    <3>2. r \in Roots \cup ({"pages"} \X DOMAIN merged.pages)
      BY <1>5, <2>2 DEF RefsOf, Appended
    <3> QED BY <3>1, <3>2 DEF RefsOf
  <2> QED BY <2>1, <2>2
<1>6. NoRef \notin Slots(source) /\ Body \notin Slots(source) /\ Furniture \notin Slots(source)
  BY SlotsApart DEF RefsOf
<1> QED BY <1>2, <1>3, <1>4, <1>5, <1>6 DEF step

LEMMA AppendKeepsShape ==
  ASSUME NEW source, NEW target, NEW merged, IsDocument(source), IsDocument(target),
         Appended(merged, source, target), ItemsHeld(merged, source, target)
  PROVE  IsDocument(merged)
<1>1. ASSUME NEW s \in Slots(merged) PROVE IsItem(At(merged, s))
  <2>1. CASE s \in Slots(target)
    BY <2>1, ItemsAreItems DEF ItemsHeld
  <2>2. ASSUME NEW r \in Slots(source), s = Shift(target, r)
        PROVE  IsItem(At(merged, s))
    <3>1. At(merged, s) = RenamedItem(ShiftStep(source, target), At(source, r)) /\ IsItem(At(source, r))
      BY <2>2, ItemsAreItems DEF ItemsHeld
    <3> QED BY <3>1, RenamedFields
  <2> QED BY <1>1, <2>1, <2>2 DEF ItemsHeld
<1>2. ASSUME NEW a \in Arenas, NEW i \in DOMAIN merged[a]
      PROVE  IsItem(merged[a][i])
  <2>1. <<a, i>> \in Slots(merged) /\ At(merged, <<a, i>>) = merged[a][i]
    BY <1>2, SlotsAre DEF At
  <2> QED BY <1>1, <2>1
<1>3. \A a \in Lists : IsSeq(merged[a])
  BY DEF ItemsHeld
<1>4. Lists \cup {"pages", "meta"} \subseteq DOMAIN merged
  BY DEF Appended
<1> QED BY <1>2, <1>3, <1>4 DEF IsDocument

LEMMA AppendKeepsSound ==
  ASSUME NEW source, NEW target, NEW merged, IsDocument(source), IsDocument(target),
         Appended(merged, source, target), ItemsHeld(merged, source, target),
         Sound(source), Sound(target)
  PROVE  Sound(merged)
<1> DEFINE step == ShiftStep(source, target)
<1>1. /\ RefsOf(target) \subseteq RefsOf(merged)
      /\ \A r \in RefsOf(source) : Renamed(step, r) \in RefsOf(merged)
      /\ Renamed(step, NoRef) = NoRef
      /\ \A r \in Slots(source) : Renamed(step, r) = Shift(target, r)
      /\ Renamed(step, Body) = Body /\ Renamed(step, Furniture) = Furniture
  BY NamesCarry
<1>2. \A a \in {"body", "furniture", "anchors"} :
        ToSet(merged[a]) = ToSet(target[a]) \cup {Renamed(step, r) : r \in ToSet(source[a])}
  BY DEF ItemsHeld
<1>3. \A r \in Slots(source) : /\ Shift(target, r) \in Slots(merged)
                               /\ At(merged, Shift(target, r)) = RenamedItem(step, At(source, r))
  BY DEF ItemsHeld
<1> HIDE DEF step
<1>4. ASSUME NEW s \in Slots(target)
      PROVE  SoundItem(merged, s)
  <2>1. At(merged, s) = At(target, s) /\ SoundItem(target, s)
    BY DEF ItemsHeld, Sound
  <2>2. ASSUME NEW p, ListedUnder(target, p, s) PROVE ListedUnder(merged, p, s)
    BY <1>2, <2>2 DEF ListedUnder, ItemsHeld
  <2> QED BY <1>1, <2>1, <2>2 DEF SoundItem
<1>5. ASSUME NEW r \in Slots(source)
      PROVE  SoundItem(merged, Shift(target, r))
  <2> DEFINE n == At(source, r)
             m == At(merged, Shift(target, r))
  <2>1. SoundItem(source, r) /\ IsItem(n)
    BY ItemsAreItems DEF Sound
  <2>2. /\ m.self = Renamed(step, n.self) /\ m.parent = Renamed(step, n.parent)
        /\ m.children = [i \in DOMAIN n.children |-> Renamed(step, n.children[i])]
        /\ DOMAIN m.spans = DOMAIN n.spans
        /\ \A i \in DOMAIN n.spans : m.spans[i].target = Renamed(step, n.spans[i].target)
        /\ m.prov = n.prov
    BY <1>3, <2>1, RenamedFields
  <2>3. /\ n.self = r /\ ToSet(n.children) \subseteq RefsOf(source)
        /\ n.parent = NoRef \/ ListedUnder(source, n.parent, r)
        /\ \A e \in ToSet(n.prov) : ~(e.page < 1)
        /\ \A sp \in ToSet(n.spans) : sp.target \in RefsOf(source) \cup {NoRef}
    BY <2>1 DEF SoundItem
  <2> HIDE DEF m, n
  <2>4. m.self = Shift(target, r)
    BY <1>1, <2>2, <2>3
  <2>5. ToSet(m.children) \subseteq RefsOf(merged)
    BY <1>1, <2>2, <2>3 DEF ToSet
  <2>6. \A sp \in ToSet(m.spans) : sp.target \in RefsOf(merged) \cup {NoRef}
    BY <1>1, <2>2, <2>3 DEF ToSet
  <2>7. ASSUME ListedUnder(source, n.parent, r)
        PROVE  ListedUnder(merged, m.parent, Shift(target, r))
    <3>1. CASE n.parent = Body /\ r \in ToSet(source.body)
      BY <1>1, <1>2, <2>2, <3>1 DEF ListedUnder
    <3>2. CASE n.parent = Furniture /\ r \in ToSet(source.furniture)
      BY <1>1, <1>2, <2>2, <3>2 DEF ListedUnder
    <3>3. CASE n.parent \in Slots(source) /\ r \in ToSet(At(source, n.parent).children)
      <4> DEFINE p == n.parent
                 over == At(source, p)
      <4>1. IsItem(over) /\ m.parent = Shift(target, p)
        BY <1>1, <2>2, <3>3, ItemsAreItems
      <4>2. At(merged, Shift(target, p)).children = [i \in DOMAIN over.children |-> Renamed(step, over.children[i])]
        BY <1>3, <3>3, <4>1, RenamedFields
      <4>3. Shift(target, r) \in ToSet(At(merged, Shift(target, p)).children)
        BY <1>1, <3>3, <4>2 DEF ToSet
      <4> QED BY <1>3, <3>3, <4>1, <4>3 DEF ListedUnder
    <3> QED BY <2>7, <3>1, <3>2, <3>3 DEF ListedUnder
  <2>8. m.parent = NoRef \/ ListedUnder(merged, m.parent, Shift(target, r))
    BY <1>1, <2>2, <2>3, <2>7
  <2> QED BY <2>2, <2>3, <2>4, <2>5, <2>6, <2>8 DEF SoundItem, m
<1>6. \A s \in Slots(merged) : SoundItem(merged, s)
  BY <1>4, <1>5 DEF ItemsHeld
<1>7. ToSet(merged.body) \cup ToSet(merged.furniture) \subseteq RefsOf(merged)
  BY <1>1, <1>2 DEF Sound
<1>8. ToSet(merged.anchors) \subseteq RefsOf(merged) \cup {NoRef}
  BY <1>1, <1>2 DEF Sound
<1> QED BY <1>6, <1>7, <1>8 DEF Sound

-----------------------------------------------------------------------------
(* Sound is what the integrity check means. *)

LEMMA ChildrenAre ==
  ASSUME NEW doc
  PROVE  /\ ChildrenOf(doc, Body) = doc.body /\ ChildrenOf(doc, Furniture) = doc.furniture
         /\ \A s \in Slots(doc) : ChildrenOf(doc, s) = At(doc, s).children
<1>1. Body # Furniture /\ \A s \in Slots(doc) : s # Body /\ s # Furniture
  BY SlotsApart
<1> QED BY <1>1 DEF ChildrenOf

\* The findings of one rule, as integrity_check reports them.
Tagged(tag, S) == {<<tag, s>> : s \in S}
LEMMA NoneTagged ==
  ASSUME NEW S, NEW tag
  PROVE  Tagged(tag, S) = {} <=> S = {}
BY DEF Tagged

LEMMA SoundMeans ==
  ASSUME NEW doc, Named(doc)
  PROVE  Sound(doc) <=> IntegrityErrors(doc) = {}
<1> DEFINE slots == Slots(doc)
           refs == Roots \cup {At(doc, s).self : s \in slots} \cup ({"pages"} \X DOMAIN doc.pages)
           holders == slots \cup Roots
           listed(r) == UNION {ToSet(ChildrenOf(doc, h)) : h \in
                          {x \in holders : IF x \in Roots THEN x = r ELSE At(doc, x).self = r}}
           targets == ToSet(doc.anchors) \cup
                      UNION {{sp.target : sp \in ToSet(At(doc, s).spans)} : s \in slots}
           empty == Tagged("empty", {x \in slots : At(doc, x).self = NoRef})
           duplicate == Tagged("duplicate", {x \in slots : \E y \in slots \ {x} :
                                     At(doc, y).self = At(doc, x).self})
           child == Tagged("child", {x \in holders : ~(ToSet(ChildrenOf(doc, x)) \subseteq refs)})
           parent == Tagged("parent", {x \in slots : At(doc, x).parent \notin refs \cup {NoRef}})
           unlisted == Tagged("unlisted", {x \in slots : At(doc, x).parent \in refs /\
                                    At(doc, x).self \notin listed(At(doc, x).parent)})
           page == Tagged("page", {x \in slots : \E e \in ToSet(At(doc, x).prov) : e.page < 1})
           target == Tagged("target", targets \ (refs \cup {NoRef}))
<1>1. IntegrityErrors(doc) = empty \cup duplicate \cup child \cup parent \cup unlisted \cup page \cup target
  BY DEF IntegrityErrors, Tagged
<1>2. refs = RefsOf(doc)
  BY DEF Named, RefsOf
<1>3. /\ NoRef \notin RefsOf(doc) /\ Body # Furniture /\ Roots = {Body, Furniture}
      /\ Body \notin slots /\ Furniture \notin slots
  BY SlotsApart DEF Roots
<1>4. /\ ChildrenOf(doc, Body) = doc.body /\ ChildrenOf(doc, Furniture) = doc.furniture
      /\ \A s \in slots : ChildrenOf(doc, s) = At(doc, s).children
  BY ChildrenAre
<1>5. empty = {} /\ duplicate = {}
  <2>1. {x \in slots : At(doc, x).self = NoRef} = {}
    BY <1>3 DEF Named, RefsOf
  <2>2. {x \in slots : \E y \in slots \ {x} : At(doc, y).self = At(doc, x).self} = {}
    BY DEF Named
  <2> QED BY <2>1, <2>2, NoneTagged
<1>6. \A p, s : s \in listed(p) <=> ListedUnder(doc, p, s)
  <2> TAKE p, s
  <2>1. s \in listed(p) <=>
          \E h \in holders : (IF h \in Roots THEN h = p ELSE At(doc, h).self = p) /\ s \in ToSet(ChildrenOf(doc, h))
    OBVIOUS
  <2>2. \A h \in slots : h \notin Roots /\ At(doc, h).self = h
    BY <1>3 DEF Named
  <2>3. s \in listed(p) <=> \/ p \in Roots /\ s \in ToSet(ChildrenOf(doc, p))
                            \/ p \in slots /\ s \in ToSet(ChildrenOf(doc, p))
    <3> HIDE DEF listed
    <3> QED BY <2>1, <2>2
  <2> QED BY <1>3, <1>4, <2>3 DEF ListedUnder
<1>7. \A p, s : ListedUnder(doc, p, s) => p \in RefsOf(doc)
  BY <1>3 DEF ListedUnder, RefsOf
<1>8. child = {} <=> /\ ToSet(doc.body) \cup ToSet(doc.furniture) \subseteq RefsOf(doc)
                     /\ \A s \in slots : ToSet(At(doc, s).children) \subseteq RefsOf(doc)
  <2> DEFINE bad == {x \in holders : ~(ToSet(ChildrenOf(doc, x)) \subseteq refs)}
  <2>1. child = {} <=> bad = {}
    BY NoneTagged
  <2>2. bad = {} <=> \A x \in holders : ToSet(ChildrenOf(doc, x)) \subseteq refs
    OBVIOUS
  <2> HIDE DEF bad, child, refs
  <2> QED BY <1>2, <1>3, <1>4, <2>1, <2>2
<1>9. parent = {} /\ unlisted = {} <=>
        \A s \in slots : At(doc, s).parent = NoRef \/ ListedUnder(doc, At(doc, s).parent, s)
  <2>1. parent = {} <=> \A s \in slots : At(doc, s).parent \in RefsOf(doc) \cup {NoRef}
    <3> DEFINE bad == {x \in slots : At(doc, x).parent \notin refs \cup {NoRef}}
    <3>1. parent = {} <=> bad = {}
      BY NoneTagged
    <3>2. bad = {} <=> \A x \in slots : At(doc, x).parent \in refs \cup {NoRef}
      OBVIOUS
    <3> HIDE DEF bad, parent, refs
    <3> QED BY <1>2, <3>1, <3>2
  <2>2. unlisted = {} <=> \A s \in slots : At(doc, s).parent \in RefsOf(doc) => ListedUnder(doc, At(doc, s).parent, s)
    <3> HIDE DEF listed, refs
    <3> DEFINE bad == {x \in slots : At(doc, x).parent \in refs /\ At(doc, x).self \notin listed(At(doc, x).parent)}
    <3>1. unlisted = {} <=> bad = {}
      BY NoneTagged
    <3>2. bad = {} <=> \A s \in slots : At(doc, s).parent \in refs => s \in listed(At(doc, s).parent)
      BY DEF Named
    <3> HIDE DEF bad, unlisted
    <3> QED BY <1>2, <1>6, <3>1, <3>2
  <2> HIDE DEF parent, unlisted
  <2> QED BY <1>3, <1>7, <2>1, <2>2
<1>10. page = {} <=> \A s \in slots : \A e \in ToSet(At(doc, s).prov) : ~(e.page < 1)
  <2> DEFINE bad == {x \in slots : \E e \in ToSet(At(doc, x).prov) : e.page < 1}
  <2>1. page = {} <=> bad = {}
    BY NoneTagged
  <2>2. bad = {} <=> \A s \in slots : \A e \in ToSet(At(doc, s).prov) : ~(e.page < 1)
    OBVIOUS
  <2> HIDE DEF bad, page
  <2> QED BY <2>1, <2>2
<1>11. target = {} <=> /\ ToSet(doc.anchors) \subseteq RefsOf(doc) \cup {NoRef}
                       /\ \A s \in slots : \A sp \in ToSet(At(doc, s).spans) : sp.target \in RefsOf(doc) \cup {NoRef}
  <2>1. target = {} <=> targets \subseteq RefsOf(doc) \cup {NoRef}
    <3> HIDE DEF targets, refs
    <3>1. target = {} <=> targets \ (refs \cup {NoRef}) = {}
      BY NoneTagged
    <3> HIDE DEF target
    <3> QED BY <1>2, <3>1
  <2>2. targets \subseteq RefsOf(doc) \cup {NoRef} <=>
          /\ ToSet(doc.anchors) \subseteq RefsOf(doc) \cup {NoRef}
          /\ \A s \in slots : \A sp \in ToSet(At(doc, s).spans) : sp.target \in RefsOf(doc) \cup {NoRef}
    OBVIOUS
  <2> HIDE DEF target, targets
  <2> QED BY <2>1, <2>2
<1> HIDE DEF empty, duplicate, child, parent, unlisted, page, target
<1>12. IntegrityErrors(doc) = {} <=> child = {} /\ parent = {} /\ unlisted = {} /\ page = {} /\ target = {}
  BY <1>1, <1>5
<1>13. Sound(doc) <=>
         /\ ToSet(doc.body) \cup ToSet(doc.furniture) \subseteq RefsOf(doc)
         /\ \A s \in slots : ToSet(At(doc, s).children) \subseteq RefsOf(doc)
         /\ \A s \in slots : At(doc, s).parent = NoRef \/ ListedUnder(doc, At(doc, s).parent, s)
         /\ \A s \in slots : \A e \in ToSet(At(doc, s).prov) : ~(e.page < 1)
         /\ \A s \in slots : \A sp \in ToSet(At(doc, s).spans) : sp.target \in RefsOf(doc) \cup {NoRef}
         /\ ToSet(doc.anchors) \subseteq RefsOf(doc) \cup {NoRef}
  BY DEF Sound, SoundItem, Named
<1> QED BY <1>8, <1>9, <1>10, <1>11, <1>12, <1>13

-----------------------------------------------------------------------------
(* Every plan. *)

\* A document that differs from another in its fields only is as sound.
SameTree(doc, other) ==
  /\ Lists \cup {"pages", "meta"} \subseteq DOMAIN other
  /\ \A a \in Lists \cup {"pages"} : other[a] = doc[a]

LEMMA SameTreeSound ==
  ASSUME NEW doc, NEW other, SameTree(doc, other), IsDocument(doc)
  PROVE  IsDocument(other) /\ (Sound(doc) => Sound(other))
<1>1. \A a \in Arenas : other[a] = doc[a]
  BY DEF SameTree, Lists
<1>2. other.body = doc.body /\ other.furniture = doc.furniture /\ other.anchors = doc.anchors /\ other.pages = doc.pages
  BY DEF SameTree, Lists
<1>3. IsDocument(other)
  BY <1>1 DEF IsDocument, SameTree
<1>4. Slots(other) = Slots(doc)
  BY <1>1 DEF Slots
<1>5. \A s \in Slots(doc) : At(other, s) = At(doc, s)
  BY <1>1, SlotsAre DEF At
<1>6. RefsOf(other) = RefsOf(doc)
  BY <1>2, <1>4 DEF RefsOf
<1>7. \A p, s : ListedUnder(doc, p, s) => ListedUnder(other, p, s)
  BY <1>2, <1>4, <1>5 DEF ListedUnder
<1>8. Sound(doc) => \A s \in Slots(doc) : SoundItem(other, s)
  BY <1>5, <1>6, <1>7 DEF Sound, SoundItem
<1> QED BY <1>2, <1>3, <1>4, <1>6, <1>8 DEF Sound

LEMMA MergeSameTree ==
  ASSUME NEW source, NEW target, NEW claimant, Fields \subseteq DOMAIN target, IsDocument(source), IsDocument(target)
  PROVE  SameTree(MergeArenas(source, target), MergeDocuments(source, target, claimant))
<1> DEFINE arenas == MergeArenas(source, target)
           merged == MergeFields(source, arenas, claimant)
<1>1. Appended(arenas, source, target)
  BY MergeAppends
<1> HIDE DEF arenas
<1>2. Lists = {"groups", "texts", "pictures", "tables", "forms", "body", "furniture", "anchors"}
  BY ArenasAre DEF Lists
<1>3. Lists \cup {"pages", "meta"} \subseteq DOMAIN arenas
  BY <1>1 DEF Appended
<1>4. /\ DOMAIN merged = DOMAIN arenas
      /\ \A a \in DOMAIN arenas \ {"meta", "holders"} : merged[a] = arenas[a]
  <2>1. merged = [arenas EXCEPT
          !.meta = [f \in DOMAIN @ \cup Taken(source, arenas, claimant) |->
                      IF f \in Taken(source, arenas, claimant) THEN source.meta[f] ELSE @[f]],
          !.holders = [f \in DOMAIN @ \cup Taken(source, arenas, claimant) |->
                      IF f \in Taken(source, arenas, claimant) THEN claimant ELSE @[f]]]
    BY DEF MergeFields, Taken
  <2> HIDE DEF merged
  <2> QED BY <2>1
<1> HIDE DEF merged
<1>5. MergeDocuments(source, target, claimant) =
        IF source.meta = <<>> THEN merged
        ELSE [merged EXCEPT !.claims = Append(@, [source |-> claimant, meta |-> source.meta])]
  BY DEF MergeDocuments, arenas, merged
<1>6. /\ DOMAIN MergeDocuments(source, target, claimant) = DOMAIN arenas
      /\ \A a \in DOMAIN arenas \ {"meta", "holders", "claims"} :
           MergeDocuments(source, target, claimant)[a] = arenas[a]
  BY <1>4, <1>5
<1>7. SameTree(arenas, MergeDocuments(source, target, claimant))
  BY <1>2, <1>3, <1>6 DEF SameTree
<1> QED BY <1>7 DEF arenas

\* A document without items is sound.
LEMMA NothingSound ==
  ASSUME NEW doc, Lists \cup {"pages", "meta"} \subseteq DOMAIN doc, \A a \in Lists : doc[a] = <<>>
  PROVE  IsDocument(doc) /\ Sound(doc)
<1>1. \A a \in Lists : IsSeq(doc[a]) /\ DOMAIN doc[a] = {} /\ ToSet(doc[a]) = {}
  <2>1. Len(<<>>) = 0 /\ DOMAIN <<>> = {} /\ <<>> \in Seq({})
    OBVIOUS
  <2>2. IsSeq(<<>>) /\ ToSet(<<>>) = {}
    BY <2>1 DEF IsSeq, ToSet
  <2> QED BY <2>1, <2>2
<1>2. Slots(doc) = {}
  BY <1>1 DEF Slots, Lists
<1>3. IsDocument(doc)
  BY <1>1 DEF IsDocument, Lists
<1> QED BY <1>1, <1>2, <1>3 DEF Sound, Lists

LEMMA RetainedSound ==
  ASSUME NEW doc, IsDocument(doc)
  PROVE  IsDocument(RetainClaimsOnly(doc)) /\ Sound(RetainClaimsOnly(doc))
<1>1. Lists \cup {"pages", "meta"} \subseteq DOMAIN doc
  BY DEF IsDocument
<1>2. Lists = {"groups", "texts", "pictures", "tables", "forms", "body", "furniture", "anchors"}
  BY ArenasAre DEF Lists
<1>3. /\ Lists \cup {"pages", "meta"} \subseteq DOMAIN RetainClaimsOnly(doc)
      /\ \A a \in Lists : RetainClaimsOnly(doc)[a] = <<>>
  BY <1>1, <1>2 DEF RetainClaimsOnly
<1> QED BY <1>3, NothingSound

\* The merged document has its shape, and is sound where every leg's is.
TreeHeld == IsDocument(result.doc) /\ (LegsSound => Sound(result.doc))

LEMMA LegKeepsTree ==
  ASSUME FieldsHeld, TreeHeld, MergeNextLeg
  PROVE  IsDocument(result'.doc) /\ (LegsSound => Sound(result'.doc))
<1> DEFINE leg == input.legs[at]
           source == IF leg.fanout /\ result.succeeded > 0 THEN RetainClaimsOnly(leg.doc) ELSE leg.doc
           appended == MergeArenas(source, result.doc)
           merged == MergeDocuments(source, result.doc, leg.claimant)
<1>1. at \in DOMAIN input.legs /\ input \in Inputs
  BY NextLegIsThere DEF FieldsHeld
<1>2. IsDocument(leg.doc)
  BY <1>1, InputsAssumption DEF InputsAssumption
<1>3. LegsSound => Sound(leg.doc)
  BY <1>1, SoundMeans DEF LegsSound
<1>4. IsDocument(RetainClaimsOnly(leg.doc)) /\ Sound(RetainClaimsOnly(leg.doc))
  BY <1>2, RetainedSound
<1>5. IsDocument(source) /\ (LegsSound => Sound(source))
  BY <1>2, <1>3, <1>4
<1>6. IsDocument(result.doc) /\ (LegsSound => Sound(result.doc)) /\ Fields \subseteq DOMAIN result.doc
  BY DEF TreeHeld, FieldsHeld, HeldIn
<1>7. result'.doc = result.doc \/ result'.doc = merged
  BY DEF MergeNextLeg, MergeLeg
<1> HIDE DEF source
<1>8. Appended(appended, source, result.doc) /\ ItemsHeld(appended, source, result.doc)
  BY <1>5, <1>6, MergeAppends, ItemsAfter
<1>9. IsDocument(appended) /\ (LegsSound => Sound(appended))
  BY <1>5, <1>6, <1>8, AppendKeepsShape, AppendKeepsSound
<1>10. SameTree(appended, merged)
  BY <1>5, <1>6, MergeSameTree
<1> HIDE DEF appended, merged
<1>11. IsDocument(merged) /\ (LegsSound => Sound(merged))
  BY <1>9, <1>10, SameTreeSound
<1> QED BY <1>6, <1>7, <1>11

LEMMA TreeHeldStep == FieldsHeld /\ TreeHeld /\ [Next]_vars => TreeHeld'
<1> SUFFICES ASSUME FieldsHeld, TreeHeld, [Next]_vars PROVE TreeHeld'
  OBVIOUS
<1>1. CASE MergeNextLeg
  <2>1. IsDocument(result'.doc) /\ (LegsSound => Sound(result'.doc))
    BY <1>1, LegKeepsTree
  <2>2. input' = input
    BY <1>1 DEF MergeNextLeg
  <2> QED BY <2>1, <2>2 DEF TreeHeld, LegsSound
<1>2. CASE Next /\ ~MergeNextLeg
  <2>1. UNCHANGED <<input, result>>
    BY <1>2, OthersLeaveFields
  <2> QED BY <2>1 DEF TreeHeld, LegsSound
<1>3. CASE UNCHANGED vars
  BY <1>3 DEF TreeHeld, LegsSound, vars
<1> QED BY <1>1, <1>2, <1>3

LEMMA TreeHeldInit == Init => TreeHeld
<1> SUFFICES ASSUME Init PROVE TreeHeld
  OBVIOUS
<1>1. result.doc = EmptyDocument
  BY DEF Init
<1>2. Lists = {"groups", "texts", "pictures", "tables", "forms", "body", "furniture", "anchors"}
  BY ArenasAre DEF Lists
<1>3. Lists \cup {"pages", "meta"} \subseteq DOMAIN EmptyDocument /\ \A a \in Lists : EmptyDocument[a] = <<>>
  BY <1>2 DEF EmptyDocument
<1>4. IsDocument(EmptyDocument) /\ Sound(EmptyDocument)
  BY <1>3, NothingSound
<1> QED BY <1>1, <1>4 DEF TreeHeld

LEMMA TreeHeldSound == TreeHeld => MergedSound
<1>1. Sound(result.doc) => Named(result.doc)
  BY DEF Sound, SoundItem, Named
<1> QED BY <1>1, SoundMeans DEF TreeHeld, MergedSound

\* Legs without an integrity error merge into a document without one, however
\* many there are, whichever fail and whichever come behind a successful one
\* (merge_arenas renumbers, retain_claims_only strips, run_collectors orders).
THEOREM MergeAlwaysSound == Spec => []MergedSound
BY FieldsAlwaysHeld, TreeHeldInit, TreeHeldStep, TreeHeldSound, PTL DEF Spec

\* Both together: what run_collectors merges is well answered and well formed.
THEOREM MergeAlwaysHolds == Spec => []MergeHolds
<1>1. ClaimsDecide /\ MergedSound => MergeHolds
  BY DEF MergeHolds
<1> QED BY <1>1, ClaimsAlwaysDecide, MergeAlwaysSound, PTL
=============================================================================
