------------------------------- MODULE Merge -------------------------------
(***************************************************************************)
(* Merging two WARC files into one (warc-ops merge.rs): the records of the *)
(* first file precede those of the second, and warcinfo records that match *)
(* are merged into the one of the earliest date, which takes the place of  *)
(* the first of them.                                                      *)
(*                                                                         *)
(* The inputs are read twice.  The first pass reads the warcinfo records   *)
(* and decides what becomes of each; the second streams every record       *)
(* through that plan.  What a record inherits from the warcinfo record     *)
(* before it must survive the warcinfo records being moved and dropped, so *)
(* the second pass follows two scopes: the one a record has in its input,  *)
(* and the one it would have in the output.                                *)
(*                                                                         *)
(* A pair of inputs is one sequence of records and the number of them that *)
(* come from the first file.  Spelling is abstracted: identifiers are what *)
(* normalize_id makes of them, and "key" is what a warcinfo record's       *)
(* version, significant fields and body make of it.                        *)
(***************************************************************************)
EXTENDS Naturals, Sequences

CONSTANTS
    RecordIds,  \* record identifiers
    Keys,       \* the identities under which warcinfo records match
    Absent,     \* the field is absent
    MergeInputs,  \* the pairs of files that are merged
    Changing    \* bound: the pairs that another program may replace between the
                \* passes, and by which it does

ASSUME AbsentAssumption == Absent \notin RecordIds \cup Nat

\* What the merge sees of a record.  warcinfoId is its WARC-Warcinfo-ID and
\* refs the records its other reference fields name; key and date are a
\* warcinfo record's.  "from" is its place in the two inputs.
MergeRecords ==
    [info : BOOLEAN, id : RecordIds \cup {Absent}, key : Keys, date : Nat \cup {Absent},
     warcinfoId : RecordIds \cup {Absent}, refs : SUBSET RecordIds, from : Nat]

FilePairs == [records : Seq(MergeRecords), first : Nat]

Infos(s) == {n \in DOMAIN s : s[n].info}

Group(s, n) == {m \in Infos(s) : s[m].key = s[n].key}

\* An identifier names one record, perhaps in several copies.
Consistent(s) ==
    \A m, n \in Infos(s) : s[m].id # Absent /\ s[m].id = s[n].id => s[m].key = s[n].key

Readable(in) ==
    /\ in \in FilePairs
    /\ in.first <= Len(in.records)
    /\ Consistent(in.records)
    /\ \A n \in DOMAIN in.records : in.records[n].from = n

ASSUME PairAssumption ==
    /\ \A in \in MergeInputs : Readable(in)
    /\ Changing \subseteq MergeInputs

-----------------------------------------------------------------------------
(* The plan: what MergePlan::build makes of the records of the first pass. *)

Least(S) == CHOOSE n \in S : \A k \in S : n <= k

\* The place at which the merged record is written.
Place(s, n) == Least(Group(s, n))

\* Faulty: the record kept is the first one.
KeptFirst(s, n) == Place(s, n)

\* The matching record that is kept: dated before undated, then the earliest,
\* then the first.
Kept(s, n) ==
    LET dated == {m \in Group(s, n) : s[m].date # Absent}
        earliest == {m \in dated : \A k \in dated : s[m].date <= s[k].date}
    IN  Least(IF dated = {} THEN Group(s, n) ELSE earliest)

KeptId(s, n) == s[Kept(s, n)].id

\* References to a dropped record would have nothing to name.
Unredirectable(s) ==
    \E n \in Infos(s) : n # Kept(s, n) /\ s[n].id # Absent /\ KeptId(s, n) = Absent

Dropped(s, id) == {n \in Infos(s) : s[n].id = id /\ KeptId(s, n) # id}

RedirectedId(s, id) ==
    IF id # Absent /\ Dropped(s, id) # {}
    THEN KeptId(s, CHOOSE n \in Dropped(s, id) : TRUE)
    ELSE id

\* Faulty: only WARC-Warcinfo-ID is a reference.
RedirectWarcinfoId(s, record) == [record EXCEPT !.warcinfoId = RedirectedId(s, @)]

RedirectReferences(s, record) ==
    [record EXCEPT !.warcinfoId = RedirectedId(s, @),
                   !.refs = {RedirectedId(s, id) : id \in @}]

-----------------------------------------------------------------------------
VARIABLES
    stage,       \* "plan", "write", "done" or "failed"
    planned,     \* the inputs as the first pass read them
    inputs,      \* the inputs as the second pass reads them
    consumed,    \* how many records the second pass has read
    taken,       \* the planned warcinfo record whose action was taken last
    inputScope,  \* the merged warcinfo record the next record of the input is under
    outputScope, \* the place of the last warcinfo record written, or 0
    written      \* the records written

mergeVars == <<stage, planned, inputs, consumed, taken, inputScope, outputScope, written>>

\* A scope is the place of a merged warcinfo record and the identifier kept.
Unscoped == [place |-> 0, id |-> Absent]

Scope(s, n) == [place |-> Place(s, n), id |-> KeptId(s, n)]

MergeInit ==
    /\ stage = "plan"
    /\ planned \in MergeInputs
    /\ inputs = planned
    /\ consumed = 0
    /\ taken = 0
    /\ inputScope = Unscoped
    /\ outputScope = 0
    /\ written = <<>>

Build ==
    /\ stage = "plan"
    /\ stage' = IF Unredirectable(planned.records) THEN "failed" ELSE "write"
    /\ UNCHANGED <<planned, inputs, consumed, taken, inputScope, outputScope, written>>

\* Another program replaces an input before the second pass opens it.
Replace ==
    /\ stage = "plan"
    /\ inputs = planned
    /\ inputs \in Changing
    /\ inputs' \in Changing
    /\ UNCHANGED <<stage, planned, consumed, taken, inputScope, outputScope, written>>

\* Faulty: the second file goes on under the first one's warcinfo record.
ScopeCarried == inputScope

\* The scope of the next record: the second file starts afresh.
CurrentScope == IF consumed = planned.first THEN Unscoped ELSE inputScope

Reading ==
    /\ stage = "write"
    /\ consumed < Len(inputs.records)

NextRecord == inputs.records[consumed + 1]

\* The warcinfo records of the plan whose actions are still to be taken.
Remaining == {n \in Infos(planned.records) : n > taken}

MergeWarcinfo ==
    /\ Reading
    /\ NextRecord.info
    /\ Remaining # {}
    /\ LET s == planned.records
           n == Least(Remaining)
       IN  /\ taken' = n
           /\ inputScope' = Scope(s, n)
           /\ IF n = Place(s, n)
              THEN /\ outputScope' = n
                   /\ written' = Append(written, RedirectReferences(s, s[Kept(s, n)]))
              ELSE UNCHANGED <<outputScope, written>>
    /\ consumed' = consumed + 1
    /\ UNCHANGED <<stage, planned, inputs>>

\* Whether the record would come under another warcinfo record in the output.
Rescoped == NextRecord.warcinfoId = Absent /\ CurrentScope.place # outputScope

Copy ==
    /\ Reading
    /\ ~NextRecord.info
    /\ Rescoped => CurrentScope.place # 0 /\ CurrentScope.id # Absent
    /\ LET record == IF Rescoped
                     THEN [NextRecord EXCEPT !.warcinfoId = CurrentScope.id]
                     ELSE NextRecord
       IN  written' = Append(written, RedirectReferences(planned.records, record))
    /\ inputScope' = CurrentScope
    /\ consumed' = consumed + 1
    /\ UNCHANGED <<stage, planned, inputs, taken, outputScope>>

\* The second pass meets a warcinfo record the first did not, or a record
\* whose scope it cannot spell.
Refuse ==
    /\ Reading
    /\ IF NextRecord.info
       THEN Remaining = {}
       ELSE Rescoped /\ (CurrentScope.place = 0 \/ CurrentScope.id = Absent)
    /\ stage' = "failed"
    /\ UNCHANGED <<planned, inputs, consumed, taken, inputScope, outputScope, written>>

\* A file cannot be opened, read or written.
FailMerge ==
    /\ stage \in {"plan", "write"}
    /\ stage' = "failed"
    /\ UNCHANGED <<planned, inputs, consumed, taken, inputScope, outputScope, written>>

FinishMerge ==
    /\ stage = "write"
    /\ consumed = Len(inputs.records)
    /\ stage' = "done"
    /\ UNCHANGED <<planned, inputs, consumed, taken, inputScope, outputScope, written>>

MergeNext == Build \/ Replace \/ MergeWarcinfo \/ Copy \/ Refuse \/ FailMerge \/ FinishMerge

MergeSpec == MergeInit /\ [][MergeNext]_mergeVars

-----------------------------------------------------------------------------
(* Properties.  What another program did to the inputs between the passes   *)
(* is not the merge's to preserve, so most are about inputs left alone.     *)

Output == [records |-> written, first |-> 0]

Merged == stage = "done" /\ inputs = planned

\* Record j is the warcinfo record that record n of the same file comes under.
InScope(in, j, n) ==
    /\ j \in 1 .. n - 1
    /\ in.records[j].info
    /\ n <= in.first \/ j > in.first
    /\ \A k \in j + 1 .. n - 1 : ~in.records[k].info

\* What the warcinfo records of an identifier, or of several, say.
InfoOf(s, ids) == {s[j].key : j \in {k \in Infos(s) : s[k].id # Absent /\ s[k].id \in ids}}

\* What the warcinfo record that record n belongs to says: the one it names, or
\* the one it comes under.
Association(in, n) ==
    LET s == in.records
    IN  IF s[n].warcinfoId # Absent
        THEN InfoOf(s, {s[n].warcinfoId})
        ELSE {s[j].key : j \in {k \in DOMAIN s : InScope(in, k, n)}}

MergeTypeOK ==
    /\ stage \in {"plan", "write", "done", "failed"}
    /\ Readable(planned)
    /\ Readable(inputs)
    /\ consumed \in 0 .. Len(inputs.records)
    /\ taken \in Nat
    /\ inputScope \in [place : Nat, id : RecordIds \cup {Absent}]
    /\ outputScope \in Nat
    /\ written \in Seq(MergeRecords)

\* merge.rs:7-8, "every reference to a dropped record is redirected to the kept
\* one" and "implicit associations that would change receive an explicit
\* WARC-Warcinfo-ID": every record of the output belongs to a warcinfo record
\* that says what the one it belonged to in its input says.
AssociationsPreserved ==
    Merged => \A i \in DOMAIN written :
        ~written[i].info => Association(Output, i) = Association(planned, written[i].from)

\* The same of the other references to warcinfo records, those of the warcinfo
\* records themselves included: none is left naming a dropped record.
ReferencesPreserved ==
    Merged => \A i \in DOMAIN written :
        InfoOf(written, written[i].refs) = InfoOf(planned.records, planned.records[written[i].from].refs)

\* merge.rs:5-6, "the matching record with the earliest WARC-Date is written
\* where the first of them stood, the rest are dropped": what stood before the
\* first of a group, and only that, stands before the record kept of it.
KeepsEarliest ==
    Merged =>
        LET s == planned.records
        IN  \A n \in Infos(s) : \E m \in Infos(written) :
                /\ {k \in Infos(written) : written[k].key = s[n].key} = {m}
                /\ s[n].date # Absent =>
                      /\ written[m].date # Absent
                      /\ written[m].date <= s[n].date
                /\ \A i \in DOMAIN written : ~written[i].info =>
                      (i < m <=> \A k \in Group(s, n) : written[i].from < k)

\* Even of inputs that changed between the passes, no merged warcinfo record is
\* written twice.
WarcinfoWrittenOnce ==
    \A k, m \in Infos(written) : written[k].key = written[m].key => k = m

\* Of matching warcinfo records the earliest is written, once, where the first of
\* them stood.  (merge.rs, MergePlan)
EarliestWrittenOnce == KeepsEarliest /\ WarcinfoWrittenOnce

-----------------------------------------------------------------------------
(* The inductive invariant.                                                *)

\* A warcinfo record of the output is the one kept of a group whose place the
\* second pass has met, every such group has one, and the output's scope is the
\* last of them.
WarcinfosFollowPlan ==
    LET s == planned.records
    IN  /\ stage \in {"write", "done"} => ~Unredirectable(s)
        /\ \A m \in Infos(written) : \E p \in Infos(s) :
              /\ p = Place(s, p)
              /\ p <= taken
              /\ written[m] = RedirectReferences(s, s[Kept(s, p)])
        /\ \A p \in Infos(s) : p = Place(s, p) /\ p <= taken =>
              \E m \in Infos(written) : written[m].key = s[p].key
        /\ WarcinfoWrittenOnce
        /\ \/ outputScope = 0 /\ Infos(written) = {}
           \/ /\ outputScope \in Infos(s)
              /\ outputScope = Place(s, outputScope)
              /\ \E m \in Infos(written) : /\ written[m].key = s[outputScope].key
                                           /\ \A k \in m + 1 .. Len(written) : ~written[k].info

\* The plan is taken in step with the input.
PlanInStep ==
    /\ taken <= consumed
    /\ \A n \in Infos(planned.records) : n <= consumed => n <= taken

\* The scope followed is that of the next record.
ScopeFollowed ==
    \/ CurrentScope = Unscoped /\ \A j \in 1 .. consumed : ~InScope(planned, j, consumed + 1)
    \/ \E j \in 1 .. consumed : /\ InScope(planned, j, consumed + 1)
                                /\ CurrentScope = Scope(planned.records, j)

\* A record was copied as it came, when it comes under the same warcinfo record,
\* or naming the one it came under.
CopiedSoundly(i) ==
    LET s == planned.records
        n == written[i].from
    IN  /\ n \in 1 .. consumed
        /\ ~s[n].info
        /\ \/ /\ written[i] = RedirectReferences(s, s[n])
              /\ s[n].warcinfoId = Absent => Association(Output, i) = Association(planned, n)
           \/ \E j \in Infos(s) :
                 /\ s[n].warcinfoId = Absent
                 /\ InScope(planned, j, n)
                 /\ KeptId(s, j) # Absent
                 /\ written[i] = RedirectReferences(s, [s[n] EXCEPT !.warcinfoId = KeptId(s, j)])

OrderKept ==
    \A i \in DOMAIN written, m \in Infos(written) :
        ~written[i].info => (i < m <=> written[i].from < Place(planned.records, written[m].from))

MergeInv ==
    /\ MergeTypeOK
    /\ stage = "plan" => consumed = 0
    /\ stage = "done" => consumed = Len(inputs.records)
    /\ WarcinfosFollowPlan
    /\ inputs = planned =>
          /\ PlanInStep
          /\ ScopeFollowed
          /\ \A i \in DOMAIN written : ~written[i].info => CopiedSoundly(i)
          /\ OrderKept

=============================================================================
