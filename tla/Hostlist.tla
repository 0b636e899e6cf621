------------------------------ MODULE Hostlist ------------------------------
(***************************************************************************)
(* Slurm's compact host lists, "gpu[01-03,07]-ib,login", and what the      *)
(* daemon makes of them (src/internal/slurm/sources.go: ExpandNodeList,    *)
(* splitTopLevel, expandPart, parseSpan, checkLiteral).                    *)
(*                                                                         *)
(* The list is read token by token; the two passes of the code refuse the  *)
(* same lists.  A token is [kind, lo, hi]: a literal with characters no    *)
(* host has, and a range that does not parse, have the kinds "badlit" and  *)
(* "badspan".  A name is the set of its pieces, each the position of a     *)
(* token and, for a range, the number taken from it; how wide a number is  *)
(* printed is left out.  Sizes are computed as the code does, in ints that *)
(* end at MaxInt.                                                          *)
(***************************************************************************)
EXTENDS Integers, Sequences, FiniteSets

CONSTANTS
    Ranges,      \* the pairs <<lo, hi>> that a list may hold
    Cap,         \* maxExpandedNodes
    MaxInt,
    MaxTokens    \* bound on the length of a list

ASSUME HostlistAssumption ==
    /\ Ranges \subseteq (0 .. MaxInt) \X (0 .. MaxInt)
    /\ MaxInt \in Nat
    /\ Cap \in 1 .. MaxInt
    /\ MaxTokens \in Nat

VARIABLES
    text,       \* the tokens read so far
    results,    \* the names of the part that is being read
    nums,       \* the numbers of the bracket that is being read
    out,        \* the names of the parts before
    verdict     \* "reading", "refused", "unfinished" or "expanded"

scanVars == <<text, results, nums, out, verdict>>

Token(kind)       == [kind |-> kind, lo |-> 0, hi |-> 0]
SpanToken(lo, hi) == [kind |-> "span", lo |-> lo, hi |-> hi]

(* Before the first token, and after a comma, a part or a range begins.    *)
LastKind == IF text = <<>> THEN "start" ELSE text[Len(text)].kind

Inside == LastKind \in {"open", "span", "next"}
Fresh  == LastKind \in {"start", "comma"}      \* the part is empty so far

ScanInit ==
    /\ text = <<>>
    /\ results = {{}}
    /\ nums = {}
    /\ out = {}
    /\ verdict = "reading"

Reads(token) ==
    /\ verdict = "reading"
    /\ Len(text) < MaxTokens
    /\ text' = Append(text, token)

Refuse == verdict' = "refused" /\ UNCHANGED <<results, nums, out>>

Here == Len(text) + 1

-----------------------------------------------------------------------------
(* checkLiteral *)
Literal(kind) ==
    /\ ~Inside /\ LastKind \notin {"lit", "badlit"}
    /\ Reads(Token(kind))
    /\ IF kind = "badlit" THEN Refuse
       ELSE /\ results' = {name \cup {<<Here, 0>>} : name \in results}
            /\ UNCHANGED <<nums, out, verdict>>

Open ==
    /\ Reads(Token("open"))
    /\ IF Inside THEN Refuse                 \* nested
       ELSE nums' = {} /\ UNCHANGED <<results, out, verdict>>

(* int arithmetic *)
Wrapped(x) == ((x + MaxInt + 1) % (2 * (MaxInt + 1))) - (MaxInt + 1)

(* Variant for the checks: hi-lo+1 wraps at the largest range. *)
WrapsTooMany(lo, hi) ==
    \/ Wrapped(hi - lo + 1) > Cap
    \/ Wrapped(Cardinality(nums) + Wrapped(hi - lo + 1)) > Cap

(* Every check of a size comes before anything is added.                   *)
TooMany(lo, hi) == hi - lo >= Cap \/ Cardinality(nums) > Cap - (hi - lo + 1)

Numbers(lo, hi) == lo .. hi

Span(lo, hi) ==
    /\ LastKind \in {"open", "next"}
    /\ Reads(SpanToken(lo, hi))
    /\ IF hi < lo \/ TooMany(lo, hi) THEN Refuse
       ELSE /\ nums' = nums \cup {<<Here, n>> : n \in Numbers(lo, hi)}
            /\ UNCHANGED <<results, out, verdict>>

BadSpan ==
    /\ LastKind \in {"open", "next"}
    /\ Reads(Token("badspan"))
    /\ Refuse

Close ==
    /\ Reads(Token("close"))
    /\ IF LastKind # "span" \/ Cardinality(results) * Cardinality(nums) > Cap THEN Refuse
       ELSE /\ results' = {name \cup {n} : name \in results, n \in nums}
            /\ UNCHANGED <<nums, out, verdict>>

(* Variant for the checks: the cap itself is too much. *)
TotalBelow == Cardinality(out) + Cardinality(results) < Cap

TotalFits == Cardinality(out) + Cardinality(results) <= Cap

(* Variant for the checks: the next part goes on from this one. *)
GoesOn == results

NoNames == {{}}

(* A comma within brackets, or one that ends a part.                       *)
Comma ==
    /\ Reads(Token(IF Inside THEN "next" ELSE "comma"))
    /\ IF Inside
       THEN IF LastKind = "span" THEN UNCHANGED <<results, nums, out, verdict>> ELSE Refuse
       ELSE IF Fresh \/ ~TotalFits THEN Refuse
            ELSE /\ out' = out \cup results
                 /\ results' = NoNames
                 /\ UNCHANGED <<nums, verdict>>

End ==
    /\ verdict = "reading"
    /\ UNCHANGED <<text, results, nums>>
    /\ IF text = <<>> THEN verdict' = "expanded" /\ out' = out
       ELSE IF Inside \/ Fresh THEN verdict' = "unfinished" /\ out' = out
       ELSE IF ~TotalFits THEN verdict' = "refused" /\ out' = out
       ELSE verdict' = "expanded" /\ out' = out \cup results

ScanNext ==
    \/ \E kind \in {"lit", "badlit"} : Literal(kind)
    \/ Open
    \/ \E r \in Ranges : Span(r[1], r[2])
    \/ BadSpan
    \/ Close
    \/ Comma
    \/ End

ScanSpec == ScanInit /\ [][ScanNext]_scanVars

-----------------------------------------------------------------------------
(***************************************************************************)
(* What a list means, told from its text as a whole.                       *)
(***************************************************************************)
Of(kind) == {p \in DOMAIN text : text[p].kind = kind}

(* Which token may stand after which.                                      *)
MayFollow ==
    ({"start", "comma"} \X {"lit", "open"})
    \cup ({"lit"} \X {"open", "comma"})
    \cup ({"open", "next"} \X {"span"})
    \cup ({"span"} \X {"next", "close"})
    \cup ({"close"} \X {"lit", "open", "comma"})

WellFormed ==
    \A p \in DOMAIN text :
        /\ <<IF p = 1 THEN "start" ELSE text[p - 1].kind, text[p].kind>> \in MayFollow
        /\ text[p].lo <= text[p].hi

(* The tokens of a kind from p to where the next such end is.              *)
Within(p, kind, end) ==
    {q \in Of(kind) : p < q /\ \A e \in Of(end) : ~(p < e /\ e < q)}

Parts == {0} \cup Of("comma")       \* by what they begin after

Sets(part)     == Within(part, "open", "comma")
Literals(part) == {<<p, 0>> : p \in Within(part, "lit", "comma")}
Pieces(open)   == {piece \in Of("span") \X (0 .. MaxInt) :
                     /\ piece[1] \in Within(open, "span", "open")
                     /\ piece[2] \in text[piece[1]].lo .. text[piece[1]].hi}

(* All the literals, and one piece of each set.                            *)
Picks(literals, sets) ==
    {literals \cup {choice[S] : S \in sets} :
        choice \in {f \in [sets -> UNION sets] : \A S \in sets : f[S] \in S}}

Names(part) == Picks(Literals(part), {Pieces(open) : open \in Sets(part)})

Meant == IF text = <<>> THEN {} ELSE UNION {Names(part) : part \in Parts}

(* No list makes the daemon hold more names than the cap, not even on the  *)
(* way to refusing it (maxExpandedNodes; expandPart: "Every size check     *)
(* happens before anything is allocated, and none can overflow").          *)
Bounded ==
    /\ Cardinality(nums) <= Cap
    /\ Cardinality(results) <= Cap
    /\ Cardinality(out) <= Cap

(* What is expanded is what the list means: every name, each once, and     *)
(* nothing else (ExpandNodeList: "an error rather than a literal").        *)
MeansWhatItSays ==
    verdict = "expanded" => out = Meant

(* A list is refused where it is malformed, or means too many nodes by     *)
(* then, and nowhere before: the cap is exact, whatever the numbers are    *)
(* (TestExpandNodeListSizeCapIsExact).                                     *)
RefusesExactly ==
    /\ verdict = "refused" => ~WellFormed \/ Cardinality(Meant) > Cap
    /\ verdict = "expanded" => WellFormed /\ LastKind \in {"start", "lit", "close"}

(* Every variable has its type (expandPart's local variables).             *)
Tokens == [kind : {"lit", "badlit", "open", "span", "badspan", "next", "close", "comma"},
           lo : 0 .. MaxInt, hi : 0 .. MaxInt]
AnyPiece == Nat \X (0 .. MaxInt)

ScanTypeOK ==
    /\ text \in Seq(Tokens)
    /\ nums \subseteq AnyPiece
    /\ \A name \in results \cup out : name \subseteq AnyPiece
    /\ verdict \in {"reading", "refused", "unfinished", "expanded"}

=============================================================================
