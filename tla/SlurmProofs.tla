---------------------------- MODULE SlurmProofs -----------------------------
(***************************************************************************)
(* What is read from Slurm.                                                *)
(*   - No host list makes the daemon hold more names than the cap,         *)
(*     whatever the cap, the largest int and the ranges are: every check   *)
(*     of a size in Hostlist comes early enough.                           *)
(*   - What is expanded is what the list means, and what is refused is     *)
(*     malformed or means more names than the cap.                         *)
(*   - Whatever a listing holds and however long it is, each of its        *)
(*     records becomes a job, or is reported, or is one to pass over, and  *)
(*     a job's GPUs are counted once.                                      *)
(***************************************************************************)
EXTENDS Hostlist, Listing, FiniteSetTheorems, SequenceTheorems, WellFoundedInduction, TLAPS

(* A set of names that is finite and within the cap.                       *)
Fits(S) == IsFiniteSet(S) /\ Cardinality(S) <= Cap

BoundedInv == Fits(nums) /\ Fits(results) /\ Fits(out)

(* Giving every name of a part a piece more makes no more names            *)
(* (checkLiteral's part of expandPart).                                    *)
LEMMA LiteralFits ==
    ASSUME NEW S, Fits(S), NEW piece
    PROVE  Fits({name \cup {piece} : name \in S})
<1> DEFINE T == {name \cup {piece} : name \in S}
           f == [name \in S |-> name \cup {piece}]
<1>1. f \in Surjection(S, T)
    BY DEF Surjection
<1>2. IsFiniteSet(T) /\ Cardinality(T) <= Cardinality(S)
    BY <1>1, FS_Surjection DEF Fits
<1>3. Cardinality(S) \in Nat /\ Cardinality(T) \in Nat
    BY <1>2, FS_CardinalityType DEF Fits
<1> QED
    BY <1>2, <1>3, HostlistAssumption DEF Fits

(* The numbers of a range, and how many they are (parseSpan).              *)
LEMMA NumbersOfRange ==
    ASSUME NEW lo \in Int, NEW hi \in Int, lo <= hi
    PROVE  LET T == {<<Here, n>> : n \in Numbers(lo, hi)}
           IN  IsFiniteSet(T) /\ Cardinality(T) <= hi - lo + 1
<1> DEFINE T == {<<Here, n>> : n \in Numbers(lo, hi)}
           f == [n \in Numbers(lo, hi) |-> <<Here, n>>]
<1>1. f \in Surjection(Numbers(lo, hi), T)
    BY DEF Surjection
<1>2. /\ IsFiniteSet(Numbers(lo, hi))
      /\ Cardinality(Numbers(lo, hi)) = hi - lo + 1
    BY FS_Interval DEF Numbers
<1>3. IsFiniteSet(T) /\ Cardinality(T) <= Cardinality(Numbers(lo, hi))
    BY <1>1, <1>2, FS_Surjection
<1> QED
    BY <1>2, <1>3

(* A set that leaves room for another fits together with it (parseSpan's   *)
(* second check, and TotalFits of ExpandNodeList).                         *)
LEMMA UnionFits ==
    ASSUME NEW S, NEW T, NEW k \in Int, Fits(S), IsFiniteSet(T),
           Cardinality(T) <= k, Cardinality(S) <= Cap - k
    PROVE  Fits(S \cup T)
<1>1. /\ IsFiniteSet(S \cup T) /\ IsFiniteSet(S \cap T)
      /\ Cardinality(S \cup T) = Cardinality(S) + Cardinality(T) - Cardinality(S \cap T)
    BY FS_Union, FS_Intersection DEF Fits
<1>2. /\ Cardinality(S) \in Nat /\ Cardinality(T) \in Nat
      /\ Cardinality(S \cap T) \in Nat /\ Cardinality(S \cup T) \in Nat
    BY <1>1, FS_CardinalityType DEF Fits
<1> QED
    BY <1>1, <1>2, HostlistAssumption DEF Fits

(* Each name with each number: no more than the product (expandPart's      *)
(* check at the closing bracket).                                          *)
LEMMA ProductFits ==
    ASSUME NEW S, NEW T, IsFiniteSet(S), IsFiniteSet(T),
           Cardinality(S) * Cardinality(T) <= Cap
    PROVE  Fits({name \cup {n} : name \in S, n \in T})
<1> DEFINE R == {name \cup {n} : name \in S, n \in T}
           f == [p \in S \X T |-> p[1] \cup {p[2]}]
<1>1. f \in Surjection(S \X T, R)
    <2>1. f \in [S \X T -> R]
        <3>1. ASSUME NEW p \in S \X T PROVE p[1] \cup {p[2]} \in R
            <4>1. p[1] \in S /\ p[2] \in T
                OBVIOUS
            <4> QED
                BY <4>1
        <3> QED
            BY <3>1
    <2>2. ASSUME NEW r \in R PROVE \E p \in S \X T : f[p] = r
        <3>1. PICK name \in S, n \in T : r = name \cup {n}
            OBVIOUS
        <3>2. <<name, n>> \in S \X T /\ f[<<name, n>>] = r
            BY <3>1
        <3> QED
            BY <3>2
    <2> HIDE DEF R, f
    <2> QED
        BY <2>1, <2>2 DEF Surjection
<1>2. /\ IsFiniteSet(S \X T)
      /\ Cardinality(S \X T) = Cardinality(S) * Cardinality(T)
    BY FS_Product
<1>3. IsFiniteSet(R) /\ Cardinality(R) <= Cardinality(S \X T)
    BY <1>1, <1>2, FS_Surjection
<1>4. Cardinality(S \X T) \in Nat /\ Cardinality(R) \in Nat
    BY <1>2, <1>3, FS_CardinalityType
<1> QED
    BY <1>2, <1>3, <1>4, HostlistAssumption DEF Fits

-----------------------------------------------------------------------------
LEMMA InitFits == ScanInit => BoundedInv
<1> SUFFICES ASSUME ScanInit PROVE BoundedInv
    OBVIOUS
<1>1. IsFiniteSet({}) /\ Cardinality({}) = 0
    BY FS_EmptySet
<1>2. IsFiniteSet({{}}) /\ Cardinality({{}}) = 1
    BY FS_Singleton
<1> QED
    BY <1>1, <1>2, HostlistAssumption DEF ScanInit, BoundedInv, Fits

LEMMA NextFits == BoundedInv /\ [ScanNext]_scanVars => BoundedInv'
<1> DEFINE Inv == Fits(nums) /\ Fits(results) /\ Fits(out)
           After == Fits(nums') /\ Fits(results') /\ Fits(out')
<1> SUFFICES ASSUME Inv, [ScanNext]_scanVars PROVE After
    BY DEF BoundedInv, Fits
<1>1. ASSUME NEW kind, Literal(kind) PROVE After
    <2>1. CASE kind = "badlit"
        BY <1>1, <2>1 DEF Literal, Refuse
    <2>2. CASE kind # "badlit"
        <3> DEFINE piece == <<Here, 0>>
        <3>1. /\ results' = {name \cup {piece} : name \in results}
              /\ UNCHANGED <<nums, out>>
            BY <1>1, <2>2 DEF Literal
        <3>2. Fits({name \cup {piece} : name \in results})
            BY LiteralFits
        <3> QED
            BY <3>1, <3>2
    <2> QED
        BY <2>1, <2>2
<1>2. CASE Open
    <2>1. Fits({})
        BY FS_EmptySet, HostlistAssumption DEF Fits
    <2> QED
        BY <1>2, <2>1 DEF Open, Refuse
<1>3. ASSUME NEW r \in Ranges, Span(r[1], r[2]) PROVE After
    <2> DEFINE lo == r[1]
               hi == r[2]
               T  == {<<Here, n>> : n \in Numbers(lo, hi)}
    <2>1. lo \in Int /\ hi \in Int
        BY HostlistAssumption
    <2>2. CASE hi < lo \/ TooMany(lo, hi)
        BY <1>3, <2>2 DEF Span, Refuse
    <2>3. CASE ~(hi < lo \/ TooMany(lo, hi))
        <3>1. nums' = nums \cup T /\ UNCHANGED <<results, out>>
            BY <1>3, <2>3 DEF Span
        <3>2. lo <= hi /\ Cardinality(nums) <= Cap - (hi - lo + 1)
            BY <2>1, <2>3, FS_CardinalityType, HostlistAssumption DEF TooMany, Fits
        <3>3. IsFiniteSet(T) /\ Cardinality(T) <= hi - lo + 1
            BY <2>1, <3>2, NumbersOfRange
        <3>4. Fits(nums \cup T)
            BY <2>1, <3>2, <3>3, UnionFits DEF Fits
        <3> QED
            BY <3>1, <3>4
    <2> QED
        BY <2>2, <2>3
<1>4. CASE BadSpan
    BY <1>4 DEF BadSpan, Refuse
<1>5. CASE Close
    <2>1. CASE LastKind # "span" \/ Cardinality(results) * Cardinality(nums) > Cap
        BY <1>5, <2>1 DEF Close, Refuse
    <2>2. CASE ~(LastKind # "span" \/ Cardinality(results) * Cardinality(nums) > Cap)
        <3>1. /\ results' = {name \cup {n} : name \in results, n \in nums}
              /\ UNCHANGED <<nums, out>>
            BY <1>5, <2>2 DEF Close
        <3>2. Cardinality(results) \in Nat /\ Cardinality(nums) \in Nat
            BY FS_CardinalityType DEF Fits
        <3>3. Cardinality(results) * Cardinality(nums) <= Cap
            BY <2>2, <3>2, HostlistAssumption
        <3>4. Fits({name \cup {n} : name \in results, n \in nums})
            <4>1. IsFiniteSet(results) /\ IsFiniteSet(nums)
                BY DEF Fits
            <4> QED
                BY <3>3, <4>1, ProductFits
        <3> QED
            BY <3>1, <3>4
    <2> QED
        BY <2>1, <2>2
<1>6. ASSUME TotalFits PROVE Fits(out \cup results)
    <2>1. Cardinality(out) \in Nat /\ Cardinality(results) \in Nat
        BY FS_CardinalityType DEF Fits
    <2>2. Cardinality(out) <= Cap - Cardinality(results)
        BY <1>6, <2>1, HostlistAssumption DEF TotalFits
    <2> QED
        BY <2>1, <2>2, UnionFits DEF Fits
<1>7. Fits(NoNames)
    <2>1. IsFiniteSet({{}}) /\ Cardinality({{}}) = 1
        BY FS_Singleton
    <2> QED
        BY <2>1, HostlistAssumption DEF Fits, NoNames
<1>8. CASE Comma
    BY <1>6, <1>7, <1>8 DEF Comma, Refuse
<1>9. CASE End
    BY <1>6, <1>9 DEF End
<1>10. CASE UNCHANGED scanVars
    BY <1>10 DEF scanVars
<1> QED
    BY <1>1, <1>2, <1>3, <1>4, <1>5, <1>8, <1>9, <1>10 DEF ScanNext

(* No list makes the daemon hold more names than the cap, for any cap, any *)
(* range of the ints and any list (ExpandNodeList, expandPart).            *)
THEOREM ExpansionBounded == ScanSpec => []Bounded
<1>1. BoundedInv => Bounded
    BY DEF BoundedInv, Bounded, Fits
<1> QED
    BY <1>1, InitFits, NextFits, PTL DEF ScanSpec

-----------------------------------------------------------------------------
(* What may follow a token already read is again a list of tokens.         *)
LEMMA NextTyped == ScanTypeOK /\ [ScanNext]_scanVars => ScanTypeOK'
<1> SUFFICES ASSUME ScanTypeOK, [ScanNext]_scanVars PROVE ScanTypeOK'
    OBVIOUS
<1>1. ASSUME NEW token \in Tokens, Reads(token) PROVE text' \in Seq(Tokens)
    <2>1. text \in Seq(Tokens)
        BY DEF ScanTypeOK
    <2> QED
        BY <1>1, <2>1 DEF Reads
<1>2. \A kind \in {"lit", "badlit", "open", "badspan", "next", "close", "comma"} :
         Token(kind) \in Tokens
    BY HostlistAssumption DEF Token, Tokens
<1>3. Here \in Nat /\ 0 \in 0 .. MaxInt
    BY HostlistAssumption DEF Here, ScanTypeOK
<1>4. ASSUME NEW kind \in {"lit", "badlit"}, Literal(kind) PROVE ScanTypeOK'
    <2>1. text' \in Seq(Tokens)
        BY <1>1, <1>2, <1>4 DEF Literal
    <2>2. <<Here, 0>> \in AnyPiece
        BY <1>3 DEF AnyPiece
    <2>3. \A name \in results : name \cup {<<Here, 0>>} \subseteq AnyPiece
        BY <2>2 DEF ScanTypeOK
    <2> QED
        BY <1>4, <2>1, <2>3 DEF Literal, Refuse, ScanTypeOK
<1>5. CASE Open \/ BadSpan
    <2>1. text' \in Seq(Tokens)
        BY <1>1, <1>2, <1>5 DEF Open, BadSpan
    <2> QED
        BY <1>5, <2>1 DEF Open, BadSpan, Refuse, ScanTypeOK
<1>6. ASSUME NEW r \in Ranges, Span(r[1], r[2]) PROVE ScanTypeOK'
    <2>1. r[1] \in 0 .. MaxInt /\ r[2] \in 0 .. MaxInt
        BY HostlistAssumption
    <2>2. SpanToken(r[1], r[2]) \in Tokens
        BY <2>1 DEF SpanToken, Tokens
    <2>3. text' \in Seq(Tokens)
        BY <1>1, <1>6, <2>2 DEF Span
    <2>4. \A n \in Numbers(r[1], r[2]) : n \in 0 .. MaxInt
        BY <2>1, HostlistAssumption DEF Numbers
    <2>5. {<<Here, n>> : n \in Numbers(r[1], r[2])} \subseteq AnyPiece
        BY <1>3, <2>4 DEF AnyPiece
    <2> QED
        BY <1>6, <2>3, <2>5 DEF Span, Refuse, ScanTypeOK
<1>7. CASE Close
    <2>1. text' \in Seq(Tokens)
        BY <1>1, <1>2, <1>7 DEF Close
    <2>2. \A name \in results, n \in nums : name \cup {n} \subseteq AnyPiece
        BY DEF ScanTypeOK
    <2> QED
        BY <1>7, <2>1, <2>2 DEF Close, Refuse, ScanTypeOK
<1>8. CASE Comma
    <2>1. text' \in Seq(Tokens)
        BY <1>1, <1>2, <1>8 DEF Comma
    <2> QED
        BY <1>8, <2>1 DEF Comma, Refuse, NoNames, ScanTypeOK
<1>9. CASE End
    BY <1>9 DEF End, ScanTypeOK
<1>10. CASE UNCHANGED scanVars
    BY <1>10 DEF scanVars, ScanTypeOK
<1> QED
    BY <1>4, <1>5, <1>6, <1>7, <1>8, <1>9, <1>10 DEF ScanNext

(* Whatever is read, the parser holds names made of numbers the list may   *)
(* name, and none that an int cannot hold (expandPart, parseSpan).         *)
THEOREM HostlistTypes == ScanSpec => []ScanTypeOK
<1>1. ScanInit => ScanTypeOK
    BY DEF ScanInit, ScanTypeOK
<1> QED
    BY <1>1, NextTyped, PTL DEF ScanSpec

-----------------------------------------------------------------------------
(***************************************************************************)
(* The meaning of a host list.  Names are picks, one piece of each set; a  *)
(* literal or a set more joins a piece to each of them.                    *)
(***************************************************************************)
ChoicesOf(F) == {f \in [F -> UNION F] : \A S \in F : f[S] \in S}

(* Each name with one piece more.                                          *)
Joined(S, T) == {name \cup {n} : name \in S, n \in T}

(* A part with one literal more.                                           *)
LEMMA PickLiteral ==
    ASSUME NEW literals, NEW F, NEW x
    PROVE  Picks(literals \cup {x}, F) = Joined(Picks(literals, F), {x})
<1> DEFINE Chosen(f) == {f[S] : S \in F}
           A == {(literals \cup {x}) \cup Chosen(f) : f \in ChoicesOf(F)}
           B == {literals \cup Chosen(f) : f \in ChoicesOf(F)}
<1>1. Picks(literals \cup {x}, F) = A /\ Picks(literals, F) = B
    BY DEF Picks, ChoicesOf
<1>2. \A f : (literals \cup {x}) \cup Chosen(f) = (literals \cup Chosen(f)) \cup {x}
    OBVIOUS
<1> HIDE DEF Chosen
<1>3. A = {name \cup {x} : name \in B}
    BY <1>2
<1> HIDE DEF A, B
<1>4. {name \cup {x} : name \in B} = Joined(B, {x})
    BY DEF Joined
<1> QED
    BY <1>1, <1>3, <1>4

(* A part with one set more: each of its names with one piece of it.       *)
LEMMA PickSet ==
    ASSUME NEW literals, NEW F, NEW S, S \notin F
    PROVE  Picks(literals, F \cup {S}) = Joined(Picks(literals, F), S)
<1> DEFINE G == F \cup {S}
           Chosen(f) == {f[T] : T \in F}
           A == {literals \cup {g[T] : T \in G} : g \in ChoicesOf(G)}
           B == {literals \cup Chosen(f) : f \in ChoicesOf(F)}
           C == {name \cup {n} : name \in B, n \in S}
<1>1. Picks(literals, G) = A /\ Picks(literals, F) = B
    BY DEF Picks, ChoicesOf
<1>2. ASSUME NEW g \in ChoicesOf(G) PROVE literals \cup {g[T] : T \in G} \in C
    <2> DEFINE f == [T \in F |-> g[T]]
    <2>1. f \in ChoicesOf(F)
        BY DEF ChoicesOf
    <2>2. {g[T] : T \in G} = Chosen(f) \cup {g[S]}
        OBVIOUS
    <2>3. g[S] \in S
        BY DEF ChoicesOf
    <2>4. literals \cup {g[T] : T \in G} = (literals \cup Chosen(f)) \cup {g[S]}
        BY <2>2
    <2>5. literals \cup Chosen(f) \in B
        BY <2>1, Zenon
    <2> HIDE DEF f, B, Chosen
    <2> QED
        BY <2>3, <2>4, <2>5
<1>3. ASSUME NEW f \in ChoicesOf(F), NEW n \in S
      PROVE  (literals \cup Chosen(f)) \cup {n} \in A
    <2> DEFINE g == [T \in G |-> IF T = S THEN n ELSE f[T]]
    <2>1. g \in ChoicesOf(G)
        BY DEF ChoicesOf
    <2>2. {g[T] : T \in G} = Chosen(f) \cup {n}
        <3>1. \A T \in F : g[T] = f[T]
            OBVIOUS
        <3>2. g[S] = n
            OBVIOUS
        <3> HIDE DEF g
        <3> QED
            BY <3>1, <3>2
    <2>3. (literals \cup Chosen(f)) \cup {n} = literals \cup {g[T] : T \in G}
        BY <2>2
    <2> HIDE DEF g, Chosen
    <2> QED
        BY <2>1, <2>3
<1>4. C = Joined(Picks(literals, F), S)
    BY <1>1 DEF Joined
<1> HIDE DEF A, B, C
<1>5. A \subseteq C
    <2> SUFFICES ASSUME NEW a \in A PROVE a \in C
        OBVIOUS
    <2>1. PICK g \in ChoicesOf(G) : a = literals \cup {g[T] : T \in G}
        BY Zenon DEF A
    <2> QED
        BY <1>2, <2>1, Zenon
<1>6. C \subseteq A
    <2> SUFFICES ASSUME NEW c \in C PROVE c \in A
        OBVIOUS
    <2>1. PICK name \in B, n \in S : c = name \cup {n}
        BY DEF C
    <2>2. PICK f \in ChoicesOf(F) : name = literals \cup Chosen(f)
        BY Zenon DEF B
    <2> HIDE DEF Chosen
    <2> QED
        BY <1>3, <2>1, <2>2
<1> QED
    BY <1>1, <1>4, <1>5, <1>6

(* An empty part has one name, which has nothing in it.                    *)
LEMMA PickNone == Picks({}, {}) = {{}}
<1> DEFINE f == [S \in {} |-> S]
<1>1. f \in ChoicesOf({})
    BY DEF ChoicesOf
<1>2. \A g \in ChoicesOf({}) : {} \cup {g[S] : S \in {}} = {}
    OBVIOUS
<1>3. Picks({}, {}) = {{} \cup {g[S] : S \in {}} : g \in ChoicesOf({})}
    BY DEF Picks, ChoicesOf
<1> QED
    BY <1>1, <1>2, <1>3

(***************************************************************************)
(* One token more.                                                         *)
(***************************************************************************)
Longer(token) == text' = Append(text, token)

(* The tokens of each kind.                                                *)
LEMMA AppendOf ==
    ASSUME text \in Seq(Tokens), NEW token \in Tokens, Longer(token)
    PROVE  /\ Here \in Nat /\ Len(text) \in Nat /\ Here = Len(text) + 1
           /\ DOMAIN text = 1 .. Len(text)
           /\ DOMAIN text' = 1 .. Here
           /\ text'[Here] = token
           /\ \A p \in 1 .. Len(text) : text'[p] = text[p] /\ text[p] \in Tokens
           /\ \A kind : Of(kind) \subseteq 1 .. Len(text)
           /\ \A kind : Of(kind)' = IF token.kind = kind THEN Of(kind) \cup {Here} ELSE Of(kind)
<1>1. /\ Len(text) \in Nat /\ DOMAIN text = 1 .. Len(text) /\ Here \in Nat /\ Here = Len(text) + 1
      /\ DOMAIN text' = 1 .. Here /\ text'[Here] = token
      /\ \A p \in 1 .. Len(text) : text'[p] = text[p] /\ text[p] \in Tokens
    BY DEF Here, Longer
<1>2. \A kind : Of(kind) \subseteq 1 .. Len(text)
    BY <1>1 DEF Of
<1>3. ASSUME NEW kind
      PROVE  Of(kind)' = IF token.kind = kind THEN Of(kind) \cup {Here} ELSE Of(kind)
    <2>1. Of(kind)' = {p \in 1 .. Here : text'[p].kind = kind}
        BY <1>1 DEF Of
    <2>2. Of(kind) = {p \in 1 .. Len(text) : text[p].kind = kind}
        BY <1>1 DEF Of
    <2>3. 1 .. Here = (1 .. Len(text)) \cup {Here}
        BY <1>1
    <2>4. \A p : p \in Of(kind)' <=> (p \in Of(kind) \/ (p = Here /\ token.kind = kind))
        BY <1>1, <2>1, <2>2, <2>3
    <2> QED
        BY <2>4
<1> QED
    BY <1>1, <1>2, <1>3

(* What is within its end stays so; the new token comes in where no end is *)
(* in between.                                                             *)
LEMMA AppendWithin ==
    ASSUME text \in Seq(Tokens), NEW token \in Tokens, Longer(token),
           NEW p \in 0 .. Len(text), NEW kind, NEW end
    PROVE  /\ Within(p, kind, end) \subseteq Of(kind)
           /\ Within(p, kind, end)' =
               IF token.kind = kind /\ \A e \in Of(end) : e <= p
               THEN Within(p, kind, end) \cup {Here} ELSE Within(p, kind, end)
<1>1. /\ Here \in Nat /\ Len(text) \in Nat /\ Here = Len(text) + 1
      /\ \A k : Of(k) \subseteq 1 .. Len(text)
      /\ \A k : Of(k)' = IF token.kind = k THEN Of(k) \cup {Here} ELSE Of(k)
    BY AppendOf
<1> DEFINE W == Within(p, kind, end)
           In(q, E) == p < q /\ \A e \in E : ~(p < e /\ e < q)
<1>2. W = {q \in Of(kind) : In(q, Of(end))} /\ W' = {q \in Of(kind)' : In(q, Of(end)')}
    BY DEF Within
<1>3. \A q \in Of(kind) : In(q, Of(end)') <=> In(q, Of(end))
    BY <1>1
<1>4. In(Here, Of(end)') <=> \A e \in Of(end) : e <= p
    BY <1>1
<1>5. \A q : q \in W' <=> q \in (IF token.kind = kind /\ \A e \in Of(end) : e <= p
                                 THEN W \cup {Here} ELSE W)
    <2> HIDE DEF W, In
    <2> QED
        BY <1>1, <1>2, <1>3, <1>4
<1> QED
    BY <1>2, <1>5

(* A set keeps its pieces, and the set that was opened last gets those of  *)
(* a new range.                                                            *)
LEMMA AppendPieces ==
    ASSUME text \in Seq(Tokens), NEW token \in Tokens, Longer(token), NEW open \in Of("open")
    PROVE  Pieces(open)' =
               IF token.kind = "span" /\ \A e \in Of("open") : e <= open
               THEN Pieces(open) \cup {<<Here, n>> : n \in token.lo .. token.hi}
               ELSE Pieces(open)
<1> DEFINE new == token.kind = "span" /\ \A e \in Of("open") : e <= open
           W == Within(open, "span", "open")
           N == 0 .. MaxInt
<1>1. /\ Here \in Nat /\ Len(text) \in Nat /\ Here = Len(text) + 1
      /\ text'[Here] = token
      /\ \A p \in 1 .. Len(text) : text'[p] = text[p] /\ text[p] \in Tokens
      /\ \A k : Of(k) \subseteq 1 .. Len(text)
      /\ \A k : Of(k)' = IF token.kind = k THEN Of(k) \cup {Here} ELSE Of(k)
    BY AppendOf
<1>2. open \in 0 .. Len(text) /\ token.lo \in N /\ token.hi \in N
    BY <1>1 DEF Tokens
<1>3. W \subseteq Of("span") /\ W' = IF new THEN W \cup {Here} ELSE W
    BY <1>2, AppendWithin
<1>4. \A q, n : <<q, n>> \in Pieces(open) <=> q \in W /\ n \in N /\ n \in text[q].lo .. text[q].hi
    BY <1>3 DEF Pieces
<1>5. W' \subseteq Of("span")'
    BY <1>1, <1>3
<1>6. \A q, n : <<q, n>> \in Pieces(open)' <=>
                    q \in W' /\ n \in N /\ n \in text'[q].lo .. text'[q].hi
    BY <1>5 DEF Pieces
<1>7. \A x \in Pieces(open) : x = <<x[1], x[2]>>
    BY DEF Pieces
<1>8. \A x \in Pieces(open)' : x = <<x[1], x[2]>>
    BY DEF Pieces
<1>9. \A n \in token.lo .. token.hi : n \in N
    BY <1>2, HostlistAssumption
<1>10. \A q \in W : q # Here /\ text'[q] = text[q]
    BY <1>1, <1>3
<1> DEFINE T == {<<Here, n>> : n \in token.lo .. token.hi}
<1>11. \A q, n : <<q, n>> \in Pieces(open)' <=>
          <<q, n>> \in Pieces(open) \/ (new /\ <<q, n>> \in T)
    <2> HIDE DEF W, new
    <2> QED
        BY <1>1, <1>3, <1>4, <1>6, <1>9, <1>10
<1>12. \A x \in T : x = <<x[1], x[2]>>
    OBVIOUS
<1> HIDE DEF T, new
<1>13. \A x : x \in Pieces(open)' <=> x \in Pieces(open) \/ (new /\ x \in T)
    <2> TAKE x
    <2>1. CASE x = <<x[1], x[2]>>
        BY <1>11, <2>1
    <2>2. CASE ~(x = <<x[1], x[2]>>)
        BY <1>7, <1>8, <1>12, <2>2
    <2> QED
        BY <2>1, <2>2
<1>14. Pieces(open)' = IF new THEN Pieces(open) \cup T ELSE Pieces(open)
    BY <1>13
<1> QED
    BY <1>14 DEF T, new

(***************************************************************************)
(* How many names a part has.                                              *)
(***************************************************************************)
(* No name has any of the pieces.                                          *)
Apart(S, T) == \A name \in S : \A n \in T : n \notin name

(* Names each with one more piece, of those that none of them has, are as  *)
(* many as the product.                                                    *)
LEMMA ProductSize ==
    ASSUME NEW S, NEW T, IsFiniteSet(S), IsFiniteSet(T), Apart(S, T)
    PROVE  /\ IsFiniteSet(Joined(S, T))
           /\ Cardinality(Joined(S, T)) = Cardinality(S) * Cardinality(T)
<1> DEFINE R == Joined(S, T)
           f == [p \in S \X T |-> p[1] \cup {p[2]}]
<1>1. \A p \in S \X T : p = <<p[1], p[2]>> /\ p[1] \in S /\ p[2] \in T
    OBVIOUS
<1>2. \A p \in S \X T : f[p] = p[1] \cup {p[2]} /\ f[p] \in R
    BY <1>1 DEF Joined
<1>3. ASSUME NEW r \in R PROVE \E p \in S \X T : f[p] = r
    <2>1. PICK name \in S, n \in T : r = name \cup {n}
        BY DEF Joined
    <2>2. <<name, n>> \in S \X T /\ f[<<name, n>>] = name \cup {n}
        OBVIOUS
    <2> QED
        BY <2>1, <2>2
<1>4. ASSUME NEW p \in S \X T, NEW q \in S \X T, f[p] = f[q] PROVE p = q
    <2> DEFINE a == p[1]
               b == q[1]
               x == p[2]
               y == q[2]
    <2>1. a \cup {x} = b \cup {y}
        BY <1>2, <1>4
    <2>2. y \notin a /\ x \notin a /\ x \notin b /\ y \notin b
        BY <1>1 DEF Apart
    <2> HIDE DEF a, b, x, y
    <2>3. x = y
        BY <2>1, <2>2
    <2>4. a = b
        <3>1. \A z : z \in a <=> z \in b
            BY <2>1, <2>2, <2>3
        <3> QED
            BY <3>1
    <2> QED
        BY <1>1, <2>3, <2>4 DEF a, b, x, y
<1>5. f \in [S \X T -> R]
    BY <1>2
<1> HIDE DEF R, f
<1>6. f \in Bijection(S \X T, R)
    <2>1. f \in Injection(S \X T, R)
        BY <1>4, <1>5 DEF Injection, IsInjective
    <2>2. f \in Surjection(S \X T, R)
        BY <1>3, <1>5 DEF Surjection
    <2> QED
        BY <2>1, <2>2 DEF Bijection
<1>7. IsFiniteSet(S \X T) /\ Cardinality(S \X T) = Cardinality(S) * Cardinality(T)
    BY FS_Product
<1>8. IsFiniteSet(R) /\ Cardinality(R) = Cardinality(S \X T)
    BY <1>6, <1>7, FS_Bijection DEF ExistsBijection
<1> QED
    BY <1>7, <1>8 DEF R

(* More names than the cap are more whatever is added.                     *)
LEMMA ManyMore ==
    ASSUME NEW S, NEW T, IsFiniteSet(T), S \subseteq T, Cardinality(S) > Cap
    PROVE  Cardinality(T) > Cap
<1>1. /\ IsFiniteSet(S) /\ Cardinality(S) <= Cardinality(T)
      /\ Cardinality(S) \in Nat /\ Cardinality(T) \in Nat
    BY FS_Subset, FS_CardinalityType
<1> QED
    BY <1>1, HostlistAssumption

(* A set that has more pieces than the cap makes too many names.           *)
LEMMA ManyNames ==
    ASSUME NEW S, NEW T, IsFiniteSet(S), IsFiniteSet(T), Apart(S, T),
           S # {}, Cardinality(T) > Cap
    PROVE  IsFiniteSet(Joined(S, T)) /\ Cardinality(Joined(S, T)) > Cap
<1>1. PICK name \in S : TRUE
    OBVIOUS
<1>2. IsFiniteSet(Joined(S, T))
    BY ProductSize
<1>3. /\ IsFiniteSet({name}) /\ Apart({name}, T) /\ Cardinality({name}) = 1
      /\ Cardinality(T) \in Nat
    BY FS_Singleton, FS_CardinalityType DEF Apart
<1>4. Cardinality(Joined({name}, T)) = Cardinality({name}) * Cardinality(T)
    BY <1>3, ProductSize
<1>5. Cardinality(Joined({name}, T)) > Cap
    BY <1>3, <1>4
<1>6. Joined({name}, T) \subseteq Joined(S, T)
    BY DEF Joined
<1> QED
    BY <1>2, <1>5, <1>6, ManyMore

(* The numbers of a range are as many as it spans.                         *)
Numbered(p, lo, hi) == {<<p, n>> : n \in lo .. hi}

LEMMA RangeSize ==
    ASSUME NEW p, NEW lo \in Int, NEW hi \in Int, lo <= hi
    PROVE  /\ IsFiniteSet(Numbered(p, lo, hi))
           /\ Cardinality(Numbered(p, lo, hi)) = hi - lo + 1
<1> DEFINE T == {<<p, n>> : n \in lo .. hi}
           f == [n \in lo .. hi |-> <<p, n>>]
<1>1. f \in Bijection(lo .. hi, T)
    BY DEF Bijection, Injection, Surjection, IsInjective
<1>2. IsFiniteSet(lo .. hi) /\ Cardinality(lo .. hi) = hi - lo + 1
    BY FS_Interval
<1>3. IsFiniteSet(T) /\ Cardinality(T) = hi - lo + 1
    BY <1>1, <1>2, FS_Bijection DEF ExistsBijection
<1> QED
    BY <1>3 DEF Numbered

(***************************************************************************)
(* The invariant: what was read means what was made of it.                 *)
(***************************************************************************)
Others(part, open) == {Pieces(q) : q \in Sets(part) \ {open}}

(* Within brackets: the numbers so far are those of the set that is open,  *)
(* and the names those of the part without it.                             *)
InSet(part, open) ==
    /\ part < open
    /\ \A e \in Of("open") : e <= open
    /\ nums = Pieces(open)
    /\ results = Picks(Literals(part), Others(part, open))
    /\ \A name \in results : \A piece \in name : piece[1] < open
    /\ LastKind = "span" => nums # {}

(* The last part is being read, and those before it are done.              *)
InPart(part) ==
    /\ \A e \in Of("comma") : e <= part
    /\ out = UNION {Names(p) : p \in Parts \ {part}}
    /\ \A name \in out : \A piece \in name : piece[1] < part
    /\ \A name \in results : \A piece \in name : part < piece[1] /\ piece[1] <= Len(text)
    /\ results # {}
    /\ IF Inside THEN \E open \in Of("open") : InSet(part, open)
       ELSE results = Names(part) /\ (~Fresh => {} \notin results)

ReadingInv == verdict = "reading" => WellFormed /\ \E part \in Parts : InPart(part)

(* The token that may come next, and what it makes of a list.              *)
LEMMA AppendWellFormed ==
    ASSUME text \in Seq(Tokens), NEW token \in Tokens, Longer(token)
    PROVE  /\ WellFormed' <=> /\ WellFormed
                              /\ <<LastKind, token.kind>> \in MayFollow
                              /\ token.lo <= token.hi
           /\ LastKind' = token.kind
           /\ text' # <<>>
<1> DEFINE N == Len(text)
           Kind(p) == IF p = 1 THEN "start" ELSE text[p - 1].kind
           Good(p) == <<Kind(p), text[p].kind>> \in MayFollow /\ text[p].lo <= text[p].hi
<1>1. /\ Here \in Nat /\ N \in Nat /\ Here = N + 1
      /\ DOMAIN text = 1 .. N /\ DOMAIN text' = 1 .. Here
      /\ text'[Here] = token
      /\ \A p \in 1 .. N : text'[p] = text[p]
    BY AppendOf
<1>2. Len(text') = Here /\ text' # <<>>
    BY DEF Longer, Here
<1>3. LastKind' = token.kind
    BY <1>1, <1>2 DEF LastKind
<1>4. WellFormed <=> \A p \in 1 .. N : Good(p)
    BY <1>1 DEF WellFormed
<1>5. WellFormed' <=> \A p \in 1 .. Here :
          /\ <<IF p = 1 THEN "start" ELSE text'[p - 1].kind, text'[p].kind>> \in MayFollow
          /\ text'[p].lo <= text'[p].hi
    BY <1>1 DEF WellFormed, MayFollow
<1>6. \A p \in 1 .. N : (IF p = 1 THEN "start" ELSE text'[p - 1].kind) = Kind(p)
    BY <1>1
<1>7. (IF Here = 1 THEN "start" ELSE text'[Here - 1].kind) = LastKind
    <2>1. CASE text = <<>>
        BY <1>1, <2>1 DEF LastKind
    <2>2. CASE text # <<>>
        <3>1. N # 0
            BY <2>2
        <3> QED
            BY <1>1, <2>2, <3>1 DEF LastKind
    <2> QED
        BY <2>1, <2>2
<1>8. 1 .. Here = (1 .. N) \cup {Here}
    BY <1>1
<1>9. WellFormed' <=> /\ \A p \in 1 .. N : Good(p)
                      /\ <<LastKind, token.kind>> \in MayFollow /\ token.lo <= token.hi
    BY <1>1, <1>5, <1>6, <1>7, <1>8
<1> QED
    BY <1>2, <1>3, <1>4, <1>9

(* What a well-formed list may end with.                                   *)
LEMMA LastKinds ==
    ASSUME text \in Seq(Tokens), WellFormed
    PROVE  LastKind \in {"start", "comma", "lit", "open", "next", "span", "close"}
<1>1. CASE text = <<>>
    BY <1>1 DEF LastKind
<1>2. CASE text # <<>>
    <2> DEFINE N == Len(text)
    <2>1. N \in Nat /\ N # 0 /\ DOMAIN text = 1 .. N
        BY <1>2
    <2>2. N \in DOMAIN text
        BY <2>1
    <2>3. <<IF N = 1 THEN "start" ELSE text[N - 1].kind, text[N].kind>> \in MayFollow
        BY <2>2 DEF WellFormed
    <2> QED
        BY <1>2, <2>3 DEF MayFollow, LastKind
<1> QED
    BY <1>1, <1>2

(* A part before the last comma keeps its names.                           *)
LEMMA OldNames ==
    ASSUME text \in Seq(Tokens), NEW token \in Tokens, Longer(token),
           NEW part \in Parts, NEW c \in Of("comma"), part < c,
           token.kind = "span" => \E o \in Of("open") : c < o
    PROVE  Names(part)' = Names(part)
<1>1. /\ Len(text) \in Nat /\ \A kind : Of(kind) \subseteq 1 .. Len(text)
    BY AppendOf
<1>2. part \in 0 .. Len(text)
    BY <1>1 DEF Parts
<1>3. ~ \A e \in Of("comma") : e <= part
    BY <1>1, <1>2
<1>4. Literals(part)' = Literals(part)
    BY <1>2, <1>3, AppendWithin DEF Literals
<1>5. Sets(part)' = Sets(part) /\ Sets(part) \subseteq Of("open")
    BY <1>2, <1>3, AppendWithin DEF Sets
<1>6. ASSUME NEW q \in Sets(part) PROVE Pieces(q)' = Pieces(q)
    <2>1. q \in Of("open") /\ q \in 1 .. Len(text)
        BY <1>1, <1>5
    <2>2. q <= c
        BY <1>1, <1>2, <2>1 DEF Sets, Within
    <2>3. token.kind = "span" => ~ \A e \in Of("open") : e <= q
        BY <1>1, <2>1, <2>2
    <2> QED
        BY <2>1, <2>3, AppendPieces
<1>7. {Pieces(open) : open \in Sets(part)}' = {Pieces(open) : open \in Sets(part)}
    BY <1>5, <1>6
<1> QED
    BY <1>4, <1>7 DEF Names

(* What a token adds to the part that is being read.                       *)
LEMMA LastPart ==
    ASSUME text \in Seq(Tokens), NEW token \in Tokens, Longer(token),
           NEW part \in Parts, \A e \in Of("comma") : e <= part
    PROVE  /\ part \in 0 .. Len(text)
           /\ Literals(part)' = IF token.kind = "lit" THEN Literals(part) \cup {<<Here, 0>>}
                                ELSE Literals(part)
           /\ Sets(part)' = IF token.kind = "open" THEN Sets(part) \cup {Here} ELSE Sets(part)
           /\ Sets(part) \subseteq Of("open") /\ Here \notin Sets(part)
           /\ Literals(part) \subseteq Of("lit") \X {0}
           /\ \A q \in Sets(part) : part < q
<1>1. /\ Len(text) \in Nat /\ Here = Len(text) + 1 /\ \A kind : Of(kind) \subseteq 1 .. Len(text)
    BY AppendOf
<1>2. part \in 0 .. Len(text)
    BY <1>1 DEF Parts
<1> DEFINE W == Within(part, "lit", "comma")
<1>3. W \subseteq Of("lit") /\ W' = IF token.kind = "lit" THEN W \cup {Here} ELSE W
    BY <1>2, AppendWithin
<1>4. /\ Sets(part)' = IF token.kind = "open" THEN Sets(part) \cup {Here} ELSE Sets(part)
      /\ Sets(part) \subseteq Of("open")
    BY <1>2, AppendWithin DEF Sets
<1>5. Literals(part) = {<<p, 0>> : p \in W} /\ Literals(part)' = {<<p, 0>> : p \in W'}
    BY DEF Literals
<1>6. Literals(part)' = IF token.kind = "lit" THEN Literals(part) \cup {<<Here, 0>>}
                        ELSE Literals(part)
    <2> HIDE DEF W
    <2> QED
        BY <1>3, <1>5
<1>7. Literals(part) \subseteq Of("lit") \X {0}
    <2> HIDE DEF W
    <2> QED
        BY <1>3, <1>5
<1>8. Here \notin Sets(part)
    BY <1>1, <1>4
<1>9. \A q \in Sets(part) : part < q
    BY DEF Sets, Within
<1> QED
    BY <1>2, <1>4, <1>6, <1>7, <1>8, <1>9

(* A token that begins no part leaves the parts before the last as they    *)
(* were.                                                                   *)
LEMMA EarlierParts ==
    ASSUME text \in Seq(Tokens), NEW token \in Tokens, Longer(token), token.kind # "comma",
           NEW part \in Parts, \A e \in Of("comma") : e <= part,
           token.kind = "span" => \E o \in Of("open") : part < o
    PROVE  /\ Parts' = Parts
           /\ \A e \in Of("comma")' : e <= part
           /\ (UNION {Names(p) : p \in Parts \ {part}})' = UNION {Names(p) : p \in Parts \ {part}}
<1>1. /\ Len(text) \in Nat /\ \A kind : Of(kind) \subseteq 1 .. Len(text)
      /\ Of("comma")' = Of("comma")
    BY AppendOf
<1>2. Parts' = Parts
    BY <1>1 DEF Parts
<1>3. ASSUME NEW p \in Parts \ {part} PROVE Names(p)' = Names(p)
    <2>1. p < part /\ part \in Of("comma")
        BY <1>1 DEF Parts
    <2> QED
        BY <2>1, OldNames
<1>4. {Names(p) : p \in Parts \ {part}}' = {Names(p) : p \in Parts \ {part}}
    BY <1>2, <1>3
<1> QED
    BY <1>1, <1>2, <1>4

(* The literals and the sets of a part make its names.                     *)
LEMMA SameNames ==
    ASSUME text \in Seq(Tokens), NEW token \in Tokens, Longer(token),
           token.kind \notin {"lit", "open", "span"},
           NEW part \in Parts, \A e \in Of("comma") : e <= part
    PROVE  /\ Names(part)' = Names(part) /\ Literals(part)' = Literals(part)
           /\ \A open : Others(part, open)' = Others(part, open)
<1>1. /\ Literals(part)' = Literals(part) /\ Sets(part)' = Sets(part)
      /\ Sets(part) \subseteq Of("open")
    BY LastPart
<1>3. {Pieces(q) : q \in Sets(part)}' = {Pieces(q) : q \in Sets(part)}
    <2>1. {Pieces(q) : q \in Sets(part)}' = {Pieces(q)' : q \in Sets(part)}
        BY <1>1
    <2>2. \A q \in Sets(part) : Pieces(q)' = Pieces(q)
        BY <1>1, AppendPieces
    <2> QED
        BY <2>1, <2>2
<1>4. ASSUME NEW open PROVE Others(part, open)' = Others(part, open)
    <2>1. Others(part, open)' = {Pieces(q)' : q \in Sets(part) \ {open}}
        BY <1>1 DEF Others
    <2>2. \A q \in Sets(part) : Pieces(q)' = Pieces(q)
        BY <1>1, AppendPieces
    <2> QED
        BY <2>1, <2>2 DEF Others
<1> QED
    BY <1>1, <1>3, <1>4 DEF Names

(* The steps of the scanner that go on reading.                            *)
LEMMA LiteralReads ==
    ASSUME ScanTypeOK, WellFormed, NEW part \in Parts, InPart(part), Literal("lit")
    PROVE  WellFormed' /\ part \in Parts' /\ InPart(part)'
<1> DEFINE token == Token("lit")
           x == <<Here, 0>>
<1>1. token \in Tokens /\ token.kind = "lit" /\ token.lo <= token.hi
    BY HostlistAssumption DEF Token, Tokens
<1>2. text \in Seq(Tokens) /\ Longer(token)
    BY DEF ScanTypeOK, Literal, Reads, Longer
<1> HIDE DEF token
<1>3. LastKind \in {"start", "comma", "close"} /\ ~Inside
    BY <1>2, LastKinds DEF Literal, Inside
<1>4. WellFormed' /\ LastKind' = "lit"
    BY <1>1, <1>2, <1>3, AppendWellFormed DEF MayFollow
<1>5. /\ Parts' = Parts /\ (\A e \in Of("comma") : e <= part)'
      /\ (UNION {Names(p) : p \in Parts \ {part}})' = out
    BY <1>1, <1>2, EarlierParts DEF InPart
<1>6. /\ results' = Joined(results, {x}) /\ out' = out
      /\ results = Names(part)
    BY <1>3 DEF Literal, InPart, Joined
<1>7. /\ Literals(part)' = Literals(part) \cup {x} /\ Sets(part)' = Sets(part)
      /\ Sets(part) \subseteq Of("open") /\ part \in 0 .. Len(text)
    BY <1>1, <1>2, LastPart DEF InPart
<1>8. {Pieces(q) : q \in Sets(part)}' = {Pieces(q) : q \in Sets(part)}
    <2>1. {Pieces(q) : q \in Sets(part)}' = {Pieces(q)' : q \in Sets(part)}
        BY <1>7
    <2>2. \A q \in Sets(part) : Pieces(q)' = Pieces(q)
        BY <1>1, <1>2, <1>7, AppendPieces
    <2> QED
        BY <2>1, <2>2
<1>9. results' = Names(part)'
    <2> DEFINE F == {Pieces(open) : open \in Sets(part)}
    <2>1. Names(part) = Picks(Literals(part), F)
        BY DEF Names
    <2>2. Names(part)' = Picks(Literals(part) \cup {x}, F)
        BY <1>7, <1>8 DEF Names
    <2> HIDE DEF F, x
    <2>3. Picks(Literals(part) \cup {x}, F) = Joined(Picks(Literals(part), F), {x})
        BY PickLiteral
    <2> QED
        BY <1>6, <2>1, <2>2, <2>3
<1>10. Here \in Nat /\ Here = Len(text) + 1 /\ Len(text)' = Here
    BY <1>2 DEF Here, Longer
<1>11. \A name \in results' : /\ name # {}
                              /\ \A piece \in name : part < piece[1] /\ piece[1] <= Len(text)'
    <2> SUFFICES ASSUME NEW name \in results'
                 PROVE  /\ name # {}
                        /\ \A piece \in name : part < piece[1] /\ piece[1] <= Here
        BY <1>10
    <2>1. PICK old \in results : name = old \cup {x}
        BY <1>6 DEF Joined
    <2>2. \A piece \in old : part < piece[1] /\ piece[1] <= Len(text) /\ piece[1] \in Nat
        BY DEF InPart, ScanTypeOK, AnyPiece
    <2>3. x[1] = Here
        OBVIOUS
    <2> HIDE DEF x
    <2> QED
        BY <1>7, <1>10, <2>1, <2>2, <2>3
<1>12. results' # {}
    <2>1. PICK name \in results : TRUE
        BY DEF InPart
    <2>2. name \cup {x} \in results'
        BY <1>6, <2>1 DEF Joined
    <2> QED
        BY <2>2
<1>13. ~Inside'
    BY <1>4 DEF Inside
<1> QED
    BY <1>4, <1>5, <1>6, <1>9, <1>11, <1>12, <1>13 DEF InPart

LEMMA OpenReads ==
    ASSUME ScanTypeOK, WellFormed, NEW part \in Parts, InPart(part), Open, verdict' = "reading"
    PROVE  WellFormed' /\ part \in Parts' /\ InPart(part)'
<1> DEFINE token == Token("open")
<1>1. token \in Tokens /\ token.kind = "open" /\ token.lo <= token.hi
    BY HostlistAssumption DEF Token, Tokens
<1>2. text \in Seq(Tokens) /\ Longer(token)
    BY DEF ScanTypeOK, Open, Reads, Longer
<1> HIDE DEF token
<1>3. ~Inside /\ nums' = {} /\ results' = results /\ out' = out
    BY DEF Open, Refuse
<1>4. LastKind \in {"start", "comma", "lit", "close"}
    BY <1>2, <1>3, LastKinds DEF Inside
<1>5. WellFormed' /\ LastKind' = "open"
    BY <1>1, <1>2, <1>4, AppendWellFormed DEF MayFollow
<1>6. /\ Parts' = Parts /\ (\A e \in Of("comma") : e <= part)'
      /\ (UNION {Names(p) : p \in Parts \ {part}})' = out
    BY <1>1, <1>2, EarlierParts DEF InPart
<1>7. /\ Literals(part)' = Literals(part) /\ Sets(part)' = Sets(part) \cup {Here}
      /\ Sets(part) \subseteq Of("open") /\ Here \notin Sets(part)
      /\ part \in 0 .. Len(text)
    BY <1>1, <1>2, LastPart DEF InPart
<1>8. /\ Here \in Nat /\ Here = Len(text) + 1 /\ Len(text)' = Here /\ Len(text) \in Nat
      /\ \A kind : Of(kind) \subseteq 1 .. Len(text)
      /\ Of("open")' = Of("open") \cup {Here} /\ Of("span")' = Of("span")
    BY <1>1, <1>2, AppendOf DEF Longer
<1>9. PICK h \in Nat : h = Here
    BY <1>8
<1>10. Others(part, h)' = {Pieces(q) : q \in Sets(part)}
    <2>1. Others(part, h)' = {Pieces(q)' : q \in Sets(part)}
        <3>1. (Sets(part) \cup {h}) \ {h} = Sets(part)
            BY <1>7, <1>9
        <3> QED
            BY <1>7, <1>9, <3>1 DEF Others
    <2>2. \A q \in Sets(part) : Pieces(q)' = Pieces(q)
        BY <1>1, <1>2, <1>7, AppendPieces
    <2> QED
        BY <2>1, <2>2
<1>11. results' = Picks(Literals(part), Others(part, h)')
    BY <1>3, <1>10 DEF InPart, Names
<1>12. Pieces(h)' = {}
    <2>1. Within(h, "span", "open")' = {}
        BY <1>8, <1>9 DEF Within
    <2> QED
        BY <2>1 DEF Pieces
<1>13. \A name \in results : \A piece \in name :
          piece[1] \in Nat /\ part < piece[1] /\ piece[1] < h
    BY <1>8, <1>9 DEF InPart, ScanTypeOK, AnyPiece
<1>14. InSet(part, h)'
    <2>1. part < h /\ \A e \in Of("open")' : e <= h
        BY <1>7, <1>8, <1>9
    <2>2. LastKind' # "span" /\ nums' = Pieces(h)'
        BY <1>3, <1>5, <1>12
    <2>3. results' = Picks(Literals(part)', Others(part, h)')
        BY <1>7, <1>11
    <2> QED
        BY <1>3, <1>13, <2>1, <2>2, <2>3 DEF InSet
<1>15. h \in Of("open")' /\ Inside'
    BY <1>5, <1>8, <1>9 DEF Inside
<1>16. \A name \in results' : \A piece \in name : part < piece[1] /\ piece[1] <= Len(text)'
    BY <1>3, <1>8, <1>9, <1>13
<1> QED
    BY <1>3, <1>5, <1>6, <1>14, <1>15, <1>16 DEF InPart

LEMMA SpanReads ==
    ASSUME ScanTypeOK, WellFormed, NEW part \in Parts, InPart(part),
           NEW r \in Ranges, Span(r[1], r[2]), verdict' = "reading"
    PROVE  WellFormed' /\ part \in Parts' /\ InPart(part)'
<1> DEFINE token == SpanToken(r[1], r[2])
           T == {<<Here, n>> : n \in r[1] .. r[2]}
<1>1. /\ token \in Tokens /\ token.kind = "span" /\ token.lo = r[1] /\ token.hi = r[2]
      /\ r[1] \in Int /\ r[2] \in Int
    BY HostlistAssumption DEF SpanToken, Tokens
<1>2. text \in Seq(Tokens) /\ Longer(token)
    BY DEF ScanTypeOK, Span, Reads, Longer
<1> HIDE DEF token
<1>3. /\ LastKind \in {"open", "next"} /\ Inside
      /\ r[1] <= r[2] /\ nums' = nums \cup T /\ results' = results /\ out' = out
    BY <1>1 DEF Span, Refuse, Inside, Numbers
<1>4. WellFormed' /\ LastKind' = "span"
    BY <1>1, <1>2, <1>3, AppendWellFormed DEF MayFollow
<1>5. PICK open \in Of("open") : InSet(part, open)
    BY <1>3 DEF InPart
<1>6. /\ Parts' = Parts /\ (\A e \in Of("comma") : e <= part)'
      /\ (UNION {Names(p) : p \in Parts \ {part}})' = out
    BY <1>1, <1>2, <1>5, EarlierParts DEF InPart, InSet
<1>7. /\ Literals(part)' = Literals(part) /\ Sets(part)' = Sets(part)
      /\ Sets(part) \subseteq Of("open")
    BY <1>1, <1>2, LastPart DEF InPart
<1>8. /\ Here \in Nat /\ Here = Len(text) + 1 /\ Len(text)' = Here /\ Len(text) \in Nat
      /\ \A kind : Of(kind) \subseteq 1 .. Len(text)
      /\ Of("open")' = Of("open")
    BY <1>1, <1>2, AppendOf DEF Longer
<1>9. Pieces(open)' = Pieces(open) \cup T
    BY <1>1, <1>2, <1>5, AppendPieces DEF InSet
<1>10. Others(part, open)' = Others(part, open)
    <2>1. Others(part, open)' = {Pieces(q)' : q \in Sets(part) \ {open}}
        BY <1>7 DEF Others
    <2>2. ASSUME NEW q \in Sets(part) \ {open} PROVE Pieces(q)' = Pieces(q)
        <3>1. q \in Of("open") /\ ~ \A e \in Of("open") : e <= q
            BY <1>5, <1>7, <1>8 DEF InSet
        <3> QED
            BY <1>1, <1>2, <3>1, AppendPieces
    <2> QED
        BY <2>1, <2>2 DEF Others
<1>11. nums' # {}
    <2>1. r[1] \in r[1] .. r[2]
        BY <1>1, <1>3
    <2>2. <<Here, r[1]>> \in T
        BY <2>1
    <2> QED
        BY <1>3, <2>2
<1>12. InSet(part, open)'
    <2>1. part < open /\ \A e \in Of("open")' : e <= open
        BY <1>5, <1>8 DEF InSet
    <2>2. nums' = Pieces(open)'
        BY <1>3, <1>5, <1>9 DEF InSet
    <2>3. results' = Picks(Literals(part)', Others(part, open)')
        BY <1>3, <1>5, <1>7, <1>10 DEF InSet
    <2>4. \A name \in results' : \A piece \in name : piece[1] < open
        BY <1>3, <1>5 DEF InSet
    <2> QED
        BY <1>11, <2>1, <2>2, <2>3, <2>4 DEF InSet
<1>13. \A name \in results' : \A piece \in name : part < piece[1] /\ piece[1] <= Len(text)'
    <2>1. \A name \in results : \A piece \in name : piece[1] \in Nat
        BY DEF ScanTypeOK, AnyPiece
    <2> QED
        BY <1>3, <1>8, <2>1 DEF InPart
<1>14. open \in Of("open")' /\ Inside'
    BY <1>4, <1>8 DEF Inside
<1> QED
    BY <1>3, <1>4, <1>6, <1>12, <1>13, <1>14 DEF InPart

(* A part with a set that was opened last: its other names with each piece *)
(* of that set.                                                            *)
LEMMA OpenSet ==
    ASSUME Of("open")' \subseteq Nat, NEW part \in Nat, \A e \in Of("comma")' : e <= part,
           Of("comma")' \subseteq Nat,
           NEW open \in Of("open")', part < open, \A e \in Of("open")' : e <= open,
           Pieces(open)' # {}
    PROVE  Names(part)' = Joined(Picks(Literals(part)', Others(part, open)'), Pieces(open)')
<1>1. open \in Sets(part)' /\ Sets(part)' \subseteq Of("open")'
    BY DEF Sets, Within
<1>2. \A n \in Pieces(open)' : open < n[1] /\ n[1] \in Of("span")'
    BY DEF Pieces, Within
<1>3. Pieces(open)' \notin Others(part, open)'
    <2> SUFFICES ASSUME NEW q \in Sets(part)' \ {open}, Pieces(q)' = Pieces(open)' PROVE FALSE
        BY DEF Others
    <2>1. q < open /\ q \in Of("open")'
        BY <1>1
    <2>2. PICK n \in Pieces(open)' : TRUE
        OBVIOUS
    <2>3. n[1] \in Within(q, "span", "open")'
        BY <2>2 DEF Pieces
    <2>4. ~(q < open /\ open < n[1])
        BY <2>3 DEF Within
    <2> QED
        BY <1>2, <2>1, <2>4
<1>4. {Pieces(q) : q \in Sets(part)}' = Others(part, open)' \cup {Pieces(open)'}
    BY <1>1 DEF Others
<1>5. Names(part)' = Picks(Literals(part)', Others(part, open)' \cup {Pieces(open)'})
    BY <1>4 DEF Names
<1> QED
    BY <1>3, <1>5, PickSet

LEMMA CloseReads ==
    ASSUME ScanTypeOK, WellFormed, NEW part \in Parts, InPart(part), Close, verdict' = "reading"
    PROVE  WellFormed' /\ part \in Parts' /\ InPart(part)'
<1> DEFINE token == Token("close")
<1>1. token \in Tokens /\ token.kind = "close" /\ token.lo <= token.hi
    BY HostlistAssumption DEF Token, Tokens
<1>2. text \in Seq(Tokens) /\ Longer(token)
    BY DEF ScanTypeOK, Close, Reads, Longer
<1> HIDE DEF token
<1>3. LastKind = "span" /\ Inside /\ results' = Joined(results, nums) /\ out' = out
    BY DEF Close, Refuse, Inside, Joined
<1>4. WellFormed' /\ LastKind' = "close"
    BY <1>1, <1>2, <1>3, AppendWellFormed DEF MayFollow
<1>5. PICK open \in Of("open") : InSet(part, open)
    BY <1>3 DEF InPart
<1>6. /\ Parts' = Parts /\ (\A e \in Of("comma") : e <= part)'
      /\ (UNION {Names(p) : p \in Parts \ {part}})' = out
    BY <1>1, <1>2, EarlierParts DEF InPart
<1>8. /\ Here \in Nat /\ Here = Len(text) + 1 /\ Len(text)' = Here /\ Len(text) \in Nat
      /\ \A kind : Of(kind) \subseteq 1 .. Len(text)
    BY <1>1, <1>2, AppendOf DEF Longer
<1>9. Sets(part) \subseteq Of("open") /\ part \in 0 .. Len(text)
    BY <1>1, <1>2, LastPart DEF InPart
<1>10. nums # {} /\ nums = Pieces(open)
    BY <1>3, <1>5 DEF InSet
<1>11. \A n \in nums : open < n[1] /\ n[1] \in Of("span")
    BY <1>10 DEF Pieces, Within
<1>12. /\ Of("open")' = Of("open") /\ Of("comma")' = Of("comma")
       /\ Pieces(open)' = nums /\ Literals(part)' = Literals(part)
       /\ Others(part, open)' = Others(part, open)
    BY <1>1, <1>2, <1>10, AppendOf, AppendPieces, SameNames DEF InPart
<1>15. results' = Names(part)'
    <2>1. Of("open")' \subseteq Nat /\ Of("comma")' \subseteq Nat /\ part \in Nat
        BY <1>8, <1>9, <1>12
    <2>2. part < open /\ (\A e \in Of("open")' : e <= open) /\ \A e \in Of("comma")' : e <= part
        BY <1>5, <1>12 DEF InSet, InPart
    <2>3. Names(part)' = Joined(Picks(Literals(part)', Others(part, open)'), Pieces(open)')
        BY <1>5, <1>10, <1>12, <2>1, <2>2, OpenSet
    <2> QED
        BY <1>3, <1>5, <1>12, <2>3 DEF InSet
<1>16. ASSUME NEW name \in results'
       PROVE  name # {} /\ \A piece \in name : part < piece[1] /\ piece[1] <= Len(text)'
    <2>1. PICK old \in results, n \in nums : name = old \cup {n}
        BY <1>3 DEF Joined
    <2>2. \A piece \in old : part < piece[1] /\ piece[1] <= Len(text) /\ piece[1] \in Nat
        BY DEF InPart, ScanTypeOK, AnyPiece
    <2>3. part < n[1] /\ n[1] <= Len(text) /\ n[1] \in Nat
        BY <1>5, <1>8, <1>9, <1>11 DEF InSet
    <2> QED
        BY <1>8, <2>1, <2>2, <2>3
<1>17. results' # {}
    <2>1. PICK name \in results, n \in nums : TRUE
        BY <1>10 DEF InPart
    <2>2. name \cup {n} \in results'
        BY <1>3, <2>1 DEF Joined
    <2> QED
        BY <2>2
<1>18. ~Inside'
    BY <1>4 DEF Inside
<1> QED
    BY <1>3, <1>4, <1>6, <1>15, <1>16, <1>17, <1>18 DEF InPart

LEMMA NextReads ==
    ASSUME ScanTypeOK, WellFormed, NEW part \in Parts, InPart(part),
           Comma, Inside, verdict' = "reading"
    PROVE  WellFormed' /\ part \in Parts' /\ InPart(part)'
<1> DEFINE token == Token("next")
<1>1. token \in Tokens /\ token.kind = "next" /\ token.lo <= token.hi
    BY HostlistAssumption DEF Token, Tokens
<1>2. text \in Seq(Tokens) /\ Longer(token)
    BY DEF ScanTypeOK, Comma, Reads, Longer
<1> HIDE DEF token
<1>3. LastKind = "span" /\ UNCHANGED <<results, nums, out>>
    BY DEF Comma, Refuse
<1>4. WellFormed' /\ LastKind' = "next"
    BY <1>1, <1>2, <1>3, AppendWellFormed DEF MayFollow
<1>5. PICK open \in Of("open") : InSet(part, open)
    BY DEF InPart
<1>6. /\ Parts' = Parts /\ (\A e \in Of("comma") : e <= part)'
      /\ (UNION {Names(p) : p \in Parts \ {part}})' = out
    BY <1>1, <1>2, EarlierParts DEF InPart
<1>7. Literals(part)' = Literals(part) /\ Others(part, open)' = Others(part, open)
    BY <1>1, <1>2, SameNames DEF InPart
<1>8. /\ Here \in Nat /\ Here = Len(text) + 1 /\ Len(text)' = Here /\ Len(text) \in Nat
      /\ Of("open")' = Of("open")
    BY <1>1, <1>2, AppendOf DEF Longer
<1>9. Pieces(open)' = Pieces(open)
    BY <1>1, <1>2, AppendPieces
<1>10. InSet(part, open)'
    BY <1>3, <1>4, <1>5, <1>7, <1>8, <1>9 DEF InSet
<1>11. \A name \in results' : \A piece \in name : part < piece[1] /\ piece[1] <= Len(text)'
    <2>1. \A name \in results : \A piece \in name : piece[1] \in Nat
        BY DEF ScanTypeOK, AnyPiece
    <2> QED
        BY <1>3, <1>8, <2>1 DEF InPart
<1>12. open \in Of("open")' /\ Inside'
    BY <1>4, <1>8 DEF Inside
<1> QED
    BY <1>3, <1>4, <1>6, <1>10, <1>11, <1>12 DEF InPart

LEMMA CommaReads ==
    ASSUME ScanTypeOK, WellFormed, NEW part \in Parts, InPart(part),
           Comma, ~Inside, verdict' = "reading"
    PROVE  WellFormed' /\ \E p \in Parts' : InPart(p)'
<1> DEFINE token == Token("comma")
<1>1. token \in Tokens /\ token.kind = "comma" /\ token.lo <= token.hi
    BY HostlistAssumption DEF Token, Tokens
<1>2. text \in Seq(Tokens) /\ Longer(token)
    BY DEF ScanTypeOK, Comma, Reads, Longer
<1> HIDE DEF token
<1>3. ~Fresh /\ out' = out \cup results /\ results' = {{}}
    BY DEF Comma, Refuse, NoNames
<1>4. LastKind \in {"lit", "close"}
    BY <1>2, <1>3, LastKinds DEF Inside, Fresh
<1>5. WellFormed' /\ LastKind' = "comma"
    BY <1>1, <1>2, <1>4, AppendWellFormed DEF MayFollow
<1>6. /\ Here \in Nat /\ Here = Len(text) + 1 /\ Len(text)' = Here /\ Len(text) \in Nat
      /\ \A kind : Of(kind) \subseteq 1 .. Len(text)
      /\ \A kind : Of(kind)' = IF kind = "comma" THEN Of(kind) \cup {Here} ELSE Of(kind)
    BY <1>1, <1>2, AppendOf DEF Longer
<1>7. PICK h \in Nat : h = Here
    BY <1>6
<1>8. h \in Parts' /\ Parts' \ {h} = Parts /\ \A e \in Of("comma")' : e <= h
    BY <1>6, <1>7 DEF Parts
<1>9. ASSUME NEW p \in Parts PROVE Names(p)' = Names(p)
    <2>1. CASE p = part
        BY <1>1, <1>2, <2>1, SameNames DEF InPart
    <2>2. CASE p # part
        <3>1. p < part /\ part \in Of("comma")
            BY <1>6, <2>2 DEF Parts, InPart
        <3> QED
            BY <1>1, <1>2, <3>1, OldNames
    <2> QED
        BY <2>1, <2>2
<1>10. out' = (UNION {Names(p) : p \in Parts \ {h}})'
    <2>1. {Names(p) : p \in Parts \ {h}}' = {Names(p) : p \in Parts}
        BY <1>8, <1>9
    <2>2. out = UNION {Names(p) : p \in Parts \ {part}} /\ results = Names(part)
        BY DEF InPart
    <2> QED
        BY <1>3, <2>1, <2>2
<1>11. Names(h)' = {{}}
    <2>1. \A kind, end : kind # "comma" => Within(h, kind, end)' = {}
        BY <1>6, <1>7 DEF Within
    <2>2. Literals(h)' = {} /\ Sets(h)' = {}
        BY <2>1 DEF Literals, Sets
    <2>3. {Pieces(open) : open \in Sets(h)}' = {}
        BY <2>2
    <2> QED
        BY <2>2, <2>3, PickNone DEF Names
<1>12. \A name \in out' : \A piece \in name : piece[1] < h
    <2>1. \A name \in results \cup out : \A piece \in name : piece[1] \in Nat
        BY DEF ScanTypeOK, AnyPiece
    <2>2. part \in 0 .. Len(text)
        BY <1>6 DEF Parts
    <2> QED
        BY <1>3, <1>6, <1>7, <2>1, <2>2 DEF InPart
<1>13. ~Inside' /\ Fresh'
    BY <1>5 DEF Inside, Fresh
<1>14. InPart(h)'
    BY <1>3, <1>8, <1>10, <1>11, <1>12, <1>13 DEF InPart
<1> QED
    BY <1>5, <1>8, <1>14

(***************************************************************************)
(* What is refused is malformed or too much.                               *)
(***************************************************************************)
TooMuch == ~WellFormed \/ Cardinality(Meant) > Cap

(* What a list means with one token more that begins no part.              *)
LEMMA MeantNext ==
    ASSUME text \in Seq(Tokens), NEW token \in Tokens, Longer(token), token.kind # "comma",
           NEW part \in Parts, InPart(part),
           token.kind = "span" => \E o \in Of("open") : part < o
    PROVE  Meant' = out \cup Names(part)'
<1>1. /\ Parts' = Parts
      /\ (UNION {Names(p) : p \in Parts \ {part}})' = out
    BY EarlierParts DEF InPart
<1>2. text' # <<>>
    BY AppendWellFormed
<1>3. Meant' = UNION {Names(p)' : p \in Parts}
    BY <1>1, <1>2 DEF Meant
<1>4. (UNION {Names(p) : p \in Parts \ {part}})' = UNION {Names(p)' : p \in Parts \ {part}}
    BY <1>1
<1>5. {Names(p)' : p \in Parts} = {Names(p)' : p \in Parts \ {part}} \cup {Names(part)'}
    OBVIOUS
<1> QED
    BY <1>1, <1>3, <1>4, <1>5

(* A range that does not fit below the cap.                                *)
LEMMA SpanRefused ==
    ASSUME ScanTypeOK, BoundedInv, WellFormed, NEW part \in Parts, InPart(part),
           NEW r \in Ranges, Span(r[1], r[2]), r[1] <= r[2], TooMany(r[1], r[2])
    PROVE  TooMuch'
<1> DEFINE token == SpanToken(r[1], r[2])
           T == Numbered(Here, r[1], r[2])
<1>1. /\ token \in Tokens /\ token.kind = "span" /\ token.lo = r[1] /\ token.hi = r[2]
      /\ r[1] \in Int /\ r[2] \in Int
    BY HostlistAssumption DEF SpanToken, Tokens
<1>2. text \in Seq(Tokens) /\ Longer(token)
    BY DEF ScanTypeOK, Span, Reads, Longer
<1> HIDE DEF token
<1>3. LastKind \in {"open", "next"} /\ Inside
    BY DEF Span, Inside
<1>4. PICK open \in Of("open") : InSet(part, open)
    BY <1>3 DEF InPart
<1>5. /\ Here \in Nat /\ Here = Len(text) + 1 /\ Len(text) \in Nat
      /\ \A kind : Of(kind) \subseteq 1 .. Len(text)
      /\ Of("open")' = Of("open") /\ Of("comma")' = Of("comma")
    BY <1>1, <1>2, AppendOf
<1>6. /\ Literals(part)' = Literals(part) /\ Sets(part)' = Sets(part)
      /\ Sets(part) \subseteq Of("open") /\ part \in 0 .. Len(text)
    BY <1>1, <1>2, LastPart DEF InPart
<1>7. Pieces(open)' = nums \cup T
    BY <1>1, <1>2, <1>4, AppendPieces DEF InSet, Numbered
<1>8. Others(part, open)' = Others(part, open)
    <2>1. Others(part, open)' = {Pieces(q)' : q \in Sets(part) \ {open}}
        BY <1>6 DEF Others
    <2>2. ASSUME NEW q \in Sets(part) \ {open} PROVE Pieces(q)' = Pieces(q)
        <3>1. q \in Of("open") /\ ~ \A e \in Of("open") : e <= q
            BY <1>4, <1>5, <1>6 DEF InSet
        <3> QED
            BY <1>1, <1>2, <3>1, AppendPieces
    <2> QED
        BY <2>1, <2>2 DEF Others
<1>9. /\ IsFiniteSet(T) /\ Cardinality(T) = r[2] - r[1] + 1
    BY <1>1, RangeSize
<1>10. IsFiniteSet(nums) /\ IsFiniteSet(results) /\ IsFiniteSet(out)
    BY DEF BoundedInv, Fits
<1>11. nums \cap T = {}
    <2>1. \A n \in nums : n[1] # Here
        BY <1>4, <1>5 DEF InSet, Pieces, Within
    <2> QED
        BY <2>1 DEF Numbered
<1>12. IsFiniteSet(nums \cup T) /\ Cardinality(nums \cup T) > Cap
    <2>1. Cardinality(nums \cap T) = 0
        BY <1>11, FS_EmptySet
    <2>2. /\ IsFiniteSet(nums \cup T)
          /\ Cardinality(nums \cup T) =
                 Cardinality(nums) + Cardinality(T) - Cardinality(nums \cap T)
        BY <1>9, <1>10, FS_Union
    <2>3. Cardinality(nums) \in Nat /\ Cardinality(T) \in Nat
        BY <1>9, <1>10, FS_CardinalityType
    <2> HIDE DEF T
    <2> QED
        BY <1>1, <1>9, <2>1, <2>2, <2>3, HostlistAssumption DEF TooMany
<1>13. nums \cup T # {}
    <2>1. r[1] \in r[1] .. r[2]
        BY <1>1
    <2>2. <<Here, r[1]>> \in T
        BY <2>1 DEF Numbered
    <2> QED
        BY <2>2
<1> HIDE DEF T
<1>14. Names(part)' = Joined(results, nums \cup T)
    <2>1. Of("open")' \subseteq Nat /\ Of("comma")' \subseteq Nat /\ part \in Nat
        BY <1>5, <1>6
    <2>2. part < open /\ (\A e \in Of("open")' : e <= open) /\ \A e \in Of("comma")' : e <= part
        BY <1>4, <1>5 DEF InSet, InPart
    <2>3. Names(part)' = Joined(Picks(Literals(part)', Others(part, open)'), Pieces(open)')
        BY <1>4, <1>5, <1>7, <1>13, <2>1, <2>2, OpenSet
    <2> QED
        BY <1>4, <1>6, <1>7, <1>8, <2>3 DEF InSet
<1>15. Apart(results, nums \cup T)
    <2>1. \A n \in nums \cup T : open < n[1]
        <3>1. \A n \in Pieces(open)' : open < n[1]
            BY DEF Pieces, Within
        <3> QED
            BY <1>7, <3>1
    <2>2. \A name \in results : \A piece \in name : piece[1] < open /\ piece[1] \in Nat
        BY <1>4 DEF InSet, ScanTypeOK, AnyPiece
    <2>3. \A n \in nums \cup T : n[1] \in Nat
        <3>1. \A n \in Pieces(open)' : n[1] \in Of("span")'
            BY DEF Pieces
        <3>2. Of("span")' \subseteq Nat
            BY <1>1, <1>2, <1>5, AppendOf
        <3> QED
            BY <1>7, <3>1, <3>2
    <2>4. open \in Nat
        BY <1>5
    <2> QED
        BY <2>1, <2>2, <2>3, <2>4 DEF Apart
<1>16. results # {}
    BY DEF InPart
<1>17. IsFiniteSet(Names(part)') /\ Cardinality(Names(part)') > Cap
    BY <1>10, <1>12, <1>14, <1>15, <1>16, ManyNames
<1>18. Meant' = out \cup Names(part)'
    BY <1>1, <1>2, <1>4, MeantNext DEF InSet
<1>19. IsFiniteSet(Meant')
    BY <1>10, <1>17, <1>18, FS_Union
<1>20. Cardinality(Meant') > Cap
    BY <1>17, <1>18, <1>19, ManyMore
<1> QED
    BY <1>20 DEF TooMuch

(* A set that would make too many names of the part.                       *)
LEMMA CloseRefused ==
    ASSUME ScanTypeOK, BoundedInv, WellFormed, NEW part \in Parts, InPart(part),
           Close, LastKind = "span", Cardinality(results) * Cardinality(nums) > Cap
    PROVE  TooMuch'
<1> DEFINE token == Token("close")
<1>1. token \in Tokens /\ token.kind = "close" /\ token.lo <= token.hi
    BY HostlistAssumption DEF Token, Tokens
<1>2. text \in Seq(Tokens) /\ Longer(token)
    BY DEF ScanTypeOK, Close, Reads, Longer
<1> HIDE DEF token
<1>3. PICK open \in Of("open") : InSet(part, open)
    BY DEF InPart, Inside
<1>4. /\ Here = Len(text) + 1 /\ Len(text) \in Nat
      /\ \A kind : Of(kind) \subseteq 1 .. Len(text)
      /\ Of("open")' = Of("open") /\ Of("comma")' = Of("comma")
    BY <1>1, <1>2, AppendOf
<1>5. /\ Pieces(open)' = nums /\ nums = Pieces(open) /\ nums # {}
      /\ Literals(part)' = Literals(part) /\ Others(part, open)' = Others(part, open)
    BY <1>1, <1>2, <1>3, AppendPieces, SameNames DEF InSet, InPart
<1>6. Names(part)' = Joined(results, nums)
    <2>1. Of("open")' \subseteq Nat /\ Of("comma")' \subseteq Nat /\ part \in Nat
        BY <1>4 DEF Parts
    <2>2. part < open /\ (\A e \in Of("open")' : e <= open) /\ \A e \in Of("comma")' : e <= part
        BY <1>3, <1>4 DEF InSet, InPart
    <2>3. Names(part)' = Joined(Picks(Literals(part)', Others(part, open)'), Pieces(open)')
        BY <1>3, <1>4, <1>5, <2>1, <2>2, OpenSet
    <2> QED
        BY <1>3, <1>5, <2>3 DEF InSet
<1>7. Apart(results, nums)
    <2>1. \A n \in nums : open < n[1] /\ n[1] \in Nat
        BY <1>4, <1>5 DEF Pieces, Within
    <2>2. \A name \in results : \A piece \in name : piece[1] < open /\ piece[1] \in Nat
        BY <1>3 DEF InSet, ScanTypeOK, AnyPiece
    <2>3. open \in Nat
        BY <1>4
    <2> QED
        BY <2>1, <2>2, <2>3 DEF Apart
<1>8. IsFiniteSet(nums) /\ IsFiniteSet(results) /\ IsFiniteSet(out)
    BY DEF BoundedInv, Fits
<1>9. IsFiniteSet(Names(part)') /\ Cardinality(Names(part)') > Cap
    BY <1>6, <1>7, <1>8, ProductSize
<1>10. Meant' = out \cup Names(part)'
    BY <1>1, <1>2, MeantNext
<1>11. IsFiniteSet(Meant')
    BY <1>8, <1>9, <1>10, FS_Union
<1>12. Cardinality(Meant') > Cap
    BY <1>9, <1>10, <1>11, ManyMore
<1> QED
    BY <1>12 DEF TooMuch

(* A part that is over has names that no part before it has.               *)
LEMMA OverTheCap ==
    ASSUME ScanTypeOK, BoundedInv, NEW part \in Parts, InPart(part), ~Inside, ~Fresh, ~TotalFits
    PROVE  IsFiniteSet(out \cup results) /\ Cardinality(out \cup results) > Cap
<1>1. IsFiniteSet(results) /\ IsFiniteSet(out)
    BY DEF BoundedInv, Fits
<1>2. out \cap results = {}
    <2> SUFFICES ASSUME NEW name \in out, name \in results PROVE FALSE
        OBVIOUS
    <2>1. PICK piece \in name : TRUE
        BY DEF InPart
    <2>2. part < piece[1] /\ piece[1] < part /\ piece[1] \in Nat /\ part \in Int
        BY DEF InPart, ScanTypeOK, AnyPiece, Parts, Of
    <2> QED
        BY <2>2
<1>3. Cardinality(out \cap results) = 0
    BY <1>2, FS_EmptySet
<1>4. /\ IsFiniteSet(out \cup results)
      /\ Cardinality(out \cup results) =
             Cardinality(out) + Cardinality(results) - Cardinality(out \cap results)
    BY <1>1, FS_Union
<1>5. Cardinality(out) \in Nat /\ Cardinality(results) \in Nat
    BY <1>1, FS_CardinalityType
<1> QED
    BY <1>3, <1>4, <1>5, HostlistAssumption DEF TotalFits

(* A part that does not fit beside those before it.                        *)
LEMMA CommaRefused ==
    ASSUME ScanTypeOK, BoundedInv, WellFormed, NEW part \in Parts, InPart(part),
           Comma, ~Inside, ~Fresh, ~TotalFits
    PROVE  TooMuch'
<1> DEFINE token == Token("comma")
<1>1. token \in Tokens /\ token.kind = "comma" /\ token.lo <= token.hi
    BY HostlistAssumption DEF Token, Tokens
<1>2. text \in Seq(Tokens) /\ Longer(token)
    BY DEF ScanTypeOK, Comma, Reads, Longer
<1> HIDE DEF token
<1>3. /\ Here \in Nat /\ Here = Len(text) + 1 /\ Len(text) \in Nat
      /\ \A kind : Of(kind) \subseteq 1 .. Len(text)
      /\ \A kind : Of(kind)' = IF kind = "comma" THEN Of(kind) \cup {Here} ELSE Of(kind)
    BY <1>1, <1>2, AppendOf
<1>4. PICK h \in Nat : h = Here
    BY <1>3
<1>5. Parts' = Parts \cup {h} /\ text' # <<>>
    BY <1>1, <1>2, <1>3, <1>4, AppendWellFormed DEF Parts
<1>6. ASSUME NEW p \in Parts PROVE Names(p)' = Names(p)
    <2>1. CASE p = part
        BY <1>1, <1>2, <2>1, SameNames DEF InPart
    <2>2. CASE p # part
        <3>1. p < part /\ part \in Of("comma")
            BY <1>3, <2>2 DEF Parts, InPart
        <3> QED
            BY <1>1, <1>2, <3>1, OldNames
    <2> QED
        BY <2>1, <2>2
<1>7. Names(h)' = {{}}
    <2>1. \A kind, end : kind # "comma" => Within(h, kind, end)' = {}
        BY <1>3, <1>4 DEF Within
    <2>2. Literals(h)' = {} /\ Sets(h)' = {}
        BY <2>1 DEF Literals, Sets
    <2>3. {Pieces(open) : open \in Sets(h)}' = {}
        BY <2>2
    <2> QED
        BY <2>2, <2>3, PickNone DEF Names
<1>8. Meant' = out \cup results \cup {{}}
    <2>1. Meant' = UNION {Names(p)' : p \in Parts \cup {h}}
        BY <1>5 DEF Meant
    <2>2. Meant' = (UNION {Names(p)' : p \in Parts}) \cup Names(h)'
        BY <2>1
    <2>3. {Names(p)' : p \in Parts} = {Names(p) : p \in Parts}
        BY <1>6
    <2>4. UNION {Names(p) : p \in Parts} =
              (UNION {Names(p) : p \in Parts \ {part}}) \cup Names(part)
        OBVIOUS
    <2> QED
        BY <1>7, <2>2, <2>3, <2>4 DEF InPart
<1>9. IsFiniteSet(out \cup results) /\ Cardinality(out \cup results) > Cap
    BY OverTheCap
<1>10. IsFiniteSet(Meant')
    BY <1>8, <1>9, FS_Union, FS_Singleton
<1>11. Cardinality(Meant') > Cap
    BY <1>8, <1>9, <1>10, ManyMore
<1> QED
    BY <1>11 DEF TooMuch

-----------------------------------------------------------------------------
(* The scanner, whatever it reads.                                         *)
ExpandInv == ReadingInv /\ MeansWhatItSays /\ RefusesExactly

(* Nothing is changed by the end but the verdict and the names.            *)
LEMMA SameText ==
    ASSUME text' = text
    PROVE  /\ Meant' = Meant /\ WellFormed' = WellFormed /\ LastKind' = LastKind
           /\ Parts' = Parts /\ \A part : Names(part)' = Names(part)
           /\ \A kind : Of(kind)' = Of(kind)
           /\ \A p : Pieces(p)' = Pieces(p) /\ Literals(p)' = Literals(p)
           /\ \A part, open : Others(part, open)' = Others(part, open)
<1>1. \A kind : Of(kind)' = Of(kind)
    BY DEF Of
<1>2. \A p, kind, end : Within(p, kind, end)' = Within(p, kind, end)
    BY <1>1 DEF Within
<1>3. Parts' = Parts /\ LastKind' = LastKind
    BY <1>1 DEF Parts, LastKind
<1>4. WellFormed' = WellFormed
    BY DEF WellFormed, MayFollow
<1>5. \A p : Pieces(p)' = Pieces(p) /\ Sets(p)' = Sets(p) /\ Literals(p)' = Literals(p)
    BY <1>1, <1>2 DEF Pieces, Sets, Literals
<1>6. \A part, open : Others(part, open)' = Others(part, open)
    BY <1>5 DEF Others
<1>7. \A part : Names(part)' = Names(part)
    <2> TAKE part
    <2>1. {Pieces(q) : q \in Sets(part)}' = {Pieces(q) : q \in Sets(part)}
        BY <1>5
    <2> QED
        BY <1>5, <2>1 DEF Names
<1>8. Meant' = Meant
    <2>1. {Names(p) : p \in Parts}' = {Names(p) : p \in Parts}
        BY <1>3, <1>7
    <2> QED
        BY <2>1 DEF Meant
<1> QED
    BY <1>1, <1>3, <1>4, <1>5, <1>6, <1>7, <1>8

(* An empty list has one part without a name.                              *)
LEMMA ExpandInit == ScanInit => ExpandInv
<1> SUFFICES ASSUME ScanInit PROVE ExpandInv
    OBVIOUS
<1>1. text = <<>> /\ DOMAIN text = {} /\ LastKind = "start"
    BY DEF ScanInit, LastKind
<1>2. \A kind : Of(kind) = {}
    BY <1>1 DEF Of
<1>3. Parts = {0}
    BY <1>2 DEF Parts
<1>4. Names(0) = {{}}
    <2>1. Literals(0) = {} /\ Sets(0) = {}
        BY <1>2 DEF Literals, Sets, Within
    <2>2. {Pieces(open) : open \in Sets(0)} = {}
        BY <2>1
    <2> QED
        BY <2>1, <2>2, PickNone DEF Names
<1>5. InPart(0)
    BY <1>1, <1>2, <1>3, <1>4 DEF InPart, ScanInit, Inside, Fresh
<1> QED
    BY <1>1, <1>3, <1>5
       DEF ExpandInv, ReadingInv, MeansWhatItSays, RefusesExactly, ScanInit, WellFormed

(* A token that is read and not refused.                                   *)
LEMMA TokenReads ==
    ASSUME ScanTypeOK, BoundedInv, ReadingInv, verdict = "reading", verdict' = "reading",
           \/ \E kind \in {"lit", "badlit"} : Literal(kind)
           \/ Open \/ (\E r \in Ranges : Span(r[1], r[2])) \/ BadSpan \/ Close \/ Comma
    PROVE  ExpandInv'
<1>1. WellFormed /\ \E part \in Parts : InPart(part)
    BY DEF ReadingInv
<1>2. PICK part \in Parts : InPart(part)
    BY <1>1
<1>3. WellFormed' /\ \E p \in Parts' : InPart(p)'
    <2>1. CASE \E kind \in {"lit", "badlit"} : Literal(kind)
        <3>1. Literal("lit")
            BY <2>1 DEF Literal, Refuse
        <3> QED
            BY <1>1, <1>2, <3>1, LiteralReads
    <2>2. CASE Open
        BY <1>1, <1>2, <2>2, OpenReads
    <2>3. CASE \E r \in Ranges : Span(r[1], r[2])
        BY <1>1, <1>2, <2>3, SpanReads
    <2>4. CASE BadSpan
        BY <2>4 DEF BadSpan, Refuse
    <2>5. CASE Close
        BY <1>1, <1>2, <2>5, CloseReads
    <2>6. CASE Comma /\ Inside
        BY <1>1, <1>2, <2>6, NextReads
    <2>7. CASE Comma /\ ~Inside
        BY <1>1, <1>2, <2>7, CommaReads
    <2> QED
        BY <2>1, <2>2, <2>3, <2>4, <2>5, <2>6, <2>7
<1> QED
    BY <1>3 DEF ExpandInv, ReadingInv, MeansWhatItSays, RefusesExactly

(* A token that is refused does not belong there, or makes too many names. *)
LEMMA TokenRefused ==
    ASSUME ScanTypeOK, BoundedInv, ReadingInv, verdict = "reading", verdict' = "refused",
           \/ \E kind \in {"lit", "badlit"} : Literal(kind)
           \/ Open \/ (\E r \in Ranges : Span(r[1], r[2])) \/ BadSpan \/ Close \/ Comma
    PROVE  TooMuch'
<1>1. WellFormed /\ \E part \in Parts : InPart(part)
    BY DEF ReadingInv
<1>2. PICK part \in Parts : InPart(part)
    BY <1>1
<1>3. text \in Seq(Tokens)
    BY DEF ScanTypeOK
<1>4. ASSUME NEW kind \in {"lit", "badlit", "open", "badspan", "next", "close", "comma"},
             Longer(Token(kind)), <<LastKind, kind>> \notin MayFollow
      PROVE  TooMuch'
    <2>1. Token(kind) \in Tokens /\ Token(kind).kind = kind
        BY HostlistAssumption DEF Token, Tokens
    <2> QED
        BY <1>3, <1>4, <2>1, AppendWellFormed DEF TooMuch
<1>5. CASE \E kind \in {"lit", "badlit"} : Literal(kind)
    <2>1. Literal("badlit")
        BY <1>5 DEF Literal, Refuse
    <2>2. Longer(Token("badlit")) /\ <<LastKind, "badlit">> \notin MayFollow
        BY <2>1 DEF Literal, Reads, Longer, MayFollow
    <2> QED
        BY <1>4, <2>2
<1>6. CASE Open
    <2>1. Longer(Token("open")) /\ <<LastKind, "open">> \notin MayFollow
        BY <1>6 DEF Open, Reads, Longer, MayFollow, Inside
    <2> QED
        BY <1>4, <2>1
<1>7. CASE \E r \in Ranges : Span(r[1], r[2])
    <2>1. PICK r \in Ranges : Span(r[1], r[2])
        BY <1>7
    <2>2. CASE r[2] < r[1]
        <3> DEFINE token == SpanToken(r[1], r[2])
        <3>1. /\ token \in Tokens /\ token.lo = r[1] /\ token.hi = r[2]
              /\ r[1] \in Int /\ r[2] \in Int
            BY HostlistAssumption DEF SpanToken, Tokens
        <3>2. Longer(token)
            BY <2>1 DEF Span, Reads, Longer
        <3> HIDE DEF token
        <3>3. WellFormed' => r[1] <= r[2]
            BY <1>3, <3>1, <3>2, AppendWellFormed
        <3> QED
            BY <2>2, <3>1, <3>3 DEF TooMuch
    <2>3. CASE ~(r[2] < r[1])
        <3>1. r[1] <= r[2] /\ TooMany(r[1], r[2])
            BY <2>1, <2>3, HostlistAssumption DEF Span
        <3> QED
            BY <1>1, <1>2, <2>1, <3>1, SpanRefused
    <2> QED
        BY <2>2, <2>3
<1>8. CASE BadSpan
    <2>1. Longer(Token("badspan")) /\ <<LastKind, "badspan">> \notin MayFollow
        BY <1>8 DEF BadSpan, Reads, Longer, MayFollow
    <2> QED
        BY <1>4, <2>1
<1>9. CASE Close
    <2>1. CASE LastKind = "span"
        <3>1. Cardinality(results) * Cardinality(nums) > Cap
            BY <1>9, <2>1 DEF Close
        <3> QED
            BY <1>1, <1>2, <1>9, <2>1, <3>1, CloseRefused
    <2>2. CASE LastKind # "span"
        <3>1. Longer(Token("close")) /\ <<LastKind, "close">> \notin MayFollow
            BY <1>9, <2>2 DEF Close, Reads, Longer, MayFollow
        <3> QED
            BY <1>4, <3>1
    <2> QED
        BY <2>1, <2>2
<1>10. CASE Comma /\ Inside
    <2>1. LastKind # "span" /\ Longer(Token("next"))
        BY <1>10 DEF Comma, Reads, Longer
    <2>2. <<LastKind, "next">> \notin MayFollow
        BY <2>1 DEF MayFollow
    <2> QED
        BY <1>4, <2>1, <2>2
<1>11. CASE Comma /\ ~Inside
    <2>1. (Fresh \/ ~TotalFits) /\ Longer(Token("comma"))
        BY <1>11 DEF Comma, Reads, Longer
    <2>2. CASE Fresh
        <3>1. <<LastKind, "comma">> \notin MayFollow
            BY <2>2 DEF Fresh, MayFollow
        <3> QED
            BY <1>4, <2>1, <3>1
    <2>3. CASE ~Fresh
        BY <1>1, <1>2, <1>11, <2>1, <2>3, CommaRefused
    <2> QED
        BY <2>2, <2>3
<1> QED
    BY <1>5, <1>6, <1>7, <1>8, <1>9, <1>10, <1>11

(* The list ends.                                                          *)
LEMMA EndExpands ==
    ASSUME ScanTypeOK, BoundedInv, ReadingInv, End
    PROVE  ExpandInv'
<1>1. verdict = "reading" /\ text' = text
    BY DEF End
<1>2. WellFormed /\ \E part \in Parts : InPart(part)
    BY <1>1 DEF ReadingInv
<1>3. PICK part \in Parts : InPart(part)
    BY <1>2
<1>4. Meant' = Meant /\ WellFormed' /\ LastKind' = LastKind
    BY <1>1, <1>2, SameText
<1>5. CASE text = <<>>
    <2>1. verdict' = "expanded" /\ out' = out
        BY <1>5 DEF End
    <2>2. out = {} /\ Meant = {} /\ LastKind = "start"
        <3>1. Parts = {0}
            BY <1>5 DEF Parts, Of
        <3> QED
            BY <1>3, <1>5, <3>1 DEF InPart, Meant, LastKind
    <2> QED
        BY <1>4, <2>1, <2>2 DEF ExpandInv, ReadingInv, MeansWhatItSays, RefusesExactly
<1>6. CASE text # <<>> /\ (Inside \/ Fresh)
    BY <1>6 DEF End, ExpandInv, ReadingInv, MeansWhatItSays, RefusesExactly
<1>7. CASE text # <<>> /\ ~Inside /\ ~Fresh
    <2>1. Meant = out \cup results
        <3>1. UNION {Names(p) : p \in Parts} =
                  (UNION {Names(p) : p \in Parts \ {part}}) \cup Names(part)
            OBVIOUS
        <3> QED
            BY <1>3, <1>7, <3>1 DEF Meant, InPart
    <2>2. CASE ~TotalFits
        <3>1. verdict' = "refused"
            BY <1>7, <2>2 DEF End
        <3>2. Cardinality(Meant) > Cap
            BY <1>3, <1>7, <2>1, <2>2, OverTheCap
        <3> QED
            BY <1>4, <3>1, <3>2 DEF ExpandInv, ReadingInv, MeansWhatItSays, RefusesExactly
    <2>3. CASE TotalFits
        <3>1. verdict' = "expanded" /\ out' = out \cup results
            BY <1>7, <2>3 DEF End
        <3>2. LastKind \in {"lit", "close"}
            BY <1>2, <1>7, LastKinds DEF ScanTypeOK, Inside, Fresh
        <3> QED
            BY <1>4, <2>1, <3>1, <3>2 DEF ExpandInv, ReadingInv, MeansWhatItSays, RefusesExactly
    <2> QED
        BY <2>2, <2>3
<1> QED
    BY <1>5, <1>6, <1>7

(* Nothing is read.                                                        *)
LEMMA NothingRead ==
    ASSUME ExpandInv, UNCHANGED scanVars
    PROVE  ExpandInv'
<1>1. text' = text /\ results' = results /\ nums' = nums /\ out' = out /\ verdict' = verdict
    BY DEF scanVars
<1>2. /\ Meant' = Meant /\ WellFormed' = WellFormed /\ LastKind' = LastKind
      /\ Parts' = Parts /\ \A part : Names(part)' = Names(part)
      /\ \A kind : Of(kind)' = Of(kind)
      /\ \A p : Pieces(p)' = Pieces(p) /\ Literals(p)' = Literals(p)
      /\ \A part, open : Others(part, open)' = Others(part, open)
    BY <1>1, SameText
<1>3. ASSUME NEW part, InPart(part) PROVE InPart(part)'
    <2>1. \A open : InSet(part, open) => InSet(part, open)'
        BY <1>1, <1>2 DEF InSet
    <2>2. {Names(p) : p \in Parts \ {part}}' = {Names(p) : p \in Parts \ {part}}
        BY <1>2
    <2>3. Inside' = Inside /\ Fresh' = Fresh
        BY <1>2, Zenon DEF Inside, Fresh
    <2> QED
        BY <1>1, <1>2, <1>3, <2>1, <2>2, <2>3 DEF InPart
<1> QED
    BY <1>1, <1>2, <1>3 DEF ExpandInv, ReadingInv, MeansWhatItSays, RefusesExactly

LEMMA ExpandStep ==
    ScanTypeOK /\ BoundedInv /\ ExpandInv /\ [ScanNext]_scanVars => ExpandInv'
<1> SUFFICES ASSUME ScanTypeOK, BoundedInv, ExpandInv, [ScanNext]_scanVars PROVE ExpandInv'
    OBVIOUS
<1>1. ReadingInv
    BY DEF ExpandInv
<1> DEFINE Reading == \/ \E kind \in {"lit", "badlit"} : Literal(kind)
                      \/ Open \/ (\E r \in Ranges : Span(r[1], r[2])) \/ BadSpan \/ Close \/ Comma
<1>2. CASE Reading
    <2>1. verdict = "reading" /\ verdict' \in {"reading", "refused"}
        BY <1>2 DEF Literal, Open, Span, BadSpan, Close, Comma, Reads, Refuse
    <2>2. CASE verdict' = "reading"
        BY <1>1, <1>2, <2>1, <2>2, TokenReads
    <2>3. CASE verdict' = "refused"
        <3>1. TooMuch'
            BY <1>1, <1>2, <2>1, <2>3, TokenRefused
        <3> QED
            BY <2>3, <3>1 DEF TooMuch, ExpandInv, ReadingInv, MeansWhatItSays, RefusesExactly
    <2> QED
        BY <2>1, <2>2, <2>3
<1>3. CASE End
    BY <1>1, <1>3, EndExpands
<1>4. CASE UNCHANGED scanVars
    BY <1>4, NothingRead
<1> QED
    BY <1>2, <1>3, <1>4 DEF ScanNext

(* What is expanded is every name that the list means, and no other, for   *)
(* any list, any ranges and any cap (ExpandNodeList).                      *)
THEOREM ExpandsToMeaning == ScanSpec => []MeansWhatItSays
<1>1. ScanInit => ScanTypeOK /\ BoundedInv /\ ExpandInv
    BY InitFits, ExpandInit DEF ScanInit, ScanTypeOK
<1>2. /\ ScanTypeOK /\ BoundedInv /\ ExpandInv /\ [ScanNext]_scanVars
      => (ScanTypeOK /\ BoundedInv /\ ExpandInv)'
    BY NextTyped, NextFits, ExpandStep
<1>3. ExpandInv => MeansWhatItSays
    BY DEF ExpandInv
<1> QED
    BY <1>1, <1>2, <1>3, PTL DEF ScanSpec

(* A list is refused only where it is malformed or means more names than   *)
(* the cap, and never accepted where it is: the cap is exact (expandPart,  *)
(* parseSpan).                                                             *)
THEOREM RefusalExact == ScanSpec => []RefusesExactly
<1>1. ScanInit => ScanTypeOK /\ BoundedInv /\ ExpandInv
    BY InitFits, ExpandInit DEF ScanInit, ScanTypeOK
<1>2. /\ ScanTypeOK /\ BoundedInv /\ ExpandInv /\ [ScanNext]_scanVars
      => (ScanTypeOK /\ BoundedInv /\ ExpandInv)'
    BY NextTyped, NextFits, ExpandStep
<1>3. ExpandInv => RefusesExactly
    BY DEF ExpandInv
<1> QED
    BY <1>1, <1>2, <1>3, PTL DEF ScanSpec

-----------------------------------------------------------------------------
(***************************************************************************)
(* A listing of the running jobs (module Listing).                         *)
(***************************************************************************)
(* The place of the first entry without a type, or 0.                      *)
LEMMA FirstUntyped ==
    ASSUME NEW es, Len(es) \in Nat
    PROVE  LET i == SelectInSeq(es, LAMBDA e : ~e.typed)
           IN  \/ i = 0 /\ \A j \in 1 .. Len(es) : es[j].typed
               \/ i \in 1 .. Len(es) /\ ~es[i].typed
<1> DEFINE I == {j \in 1 .. Len(es) : ~es[j].typed}
           i == SelectInSeq(es, LAMBDA e : ~e.typed)
<1>1. i = IF I # {} THEN Min(I) ELSE 0
    BY DEF SelectInSeq
<1>2. CASE I = {}
    BY <1>1, <1>2
<1>3. CASE I # {}
    <2>1. I \subseteq Nat
        OBVIOUS
    <2> HIDE DEF I
    <2>2. PICK x \in I : \A y \in I : ~(<<y, x>> \in OpToRel(<, Nat))
        BY <1>3, <2>1, NatLessThanWellFounded, WFMin
    <2>3. \A y \in I : x <= y
        <3> TAKE y \in I
        <3>1. x \in Nat /\ y \in Nat
            BY <2>1
        <3>2. ~(y < x)
            BY <2>2, <3>1, Zenon DEF OpToRel
        <3> QED
            BY <3>1, <3>2
    <2>4. Min(I) \in I
        BY <2>3, Zenon DEF Min
    <2>5. i \in I
        BY <1>1, <1>3, <2>4
    <2> HIDE DEF i
    <2> QED
        BY <2>5 DEF I, i
<1> QED
    BY <1>2, <1>3

(* Whichever entries a record shows, and in whichever order, its GPUs are  *)
(* counted once.                                                           *)
LEMMA CountedAsTold ==
    ASSUME NEW r \in Records
    PROVE  ParseGPUCount(TRES(r)) = Sum(r.gpus)
<1> DEFINE sum == Sum(r.gpus)
           E == [typed : BOOLEAN, n : Nat]
           typed == Typed(r)
           total == Total(r)
           N == Len(r.gpus)
<1>1. r.gpus \in Seq(Nat) /\ sum \in Nat
    BY ListingAssumption
<1> HIDE DEF sum
<1>2. N \in Nat /\ DOMAIN r.gpus = 1 .. N /\ \A i \in 1 .. N : r.gpus[i] \in Nat
    BY <1>1, LenProperties, ElementOfSeq
<1>3. /\ typed \in Seq(E) /\ Len(typed) = N
      /\ \A i \in 1 .. N : typed[i].typed /\ typed[i].n = r.gpus[i]
    <2>1. typed = [i \in 1 .. N |-> [typed |-> TRUE, n |-> r.gpus[i]]]
        BY <1>2 DEF Typed
    <2> HIDE DEF typed, N
    <2>2. typed \in [1 .. N -> E]
        BY <1>2, <2>1
    <2> HIDE DEF E
    <2>3. typed \in Seq(E)
        BY <1>2, <2>2
    <2>4. Len(typed) \in Nat /\ DOMAIN typed = 1 .. Len(typed)
        BY <2>3, LenProperties
    <2>5. Len(typed) = N
        BY <1>2, <2>2, <2>4
    <2> QED
        BY <2>1, <2>3, <2>5
<1>4. /\ total \in Seq(E) /\ Len(total) = 1
      /\ ~total[1].typed /\ total[1].n = sum
    BY <1>1 DEF Total, sum
<1>3a. typed \in Seq(E) /\ total \in Seq(E)
    BY <1>3, <1>4
<1>5. Sum(Counts(typed)) = sum
    <2>1. DOMAIN typed = 1 .. N
        BY <1>3, LenProperties
    <2>2. Counts(typed) = [i \in 1 .. N |-> typed[i].n]
        BY <2>1 DEF Counts
    <2>3. r.gpus = [i \in 1 .. N |-> r.gpus[i]]
        BY <1>1, <1>2
    <2>4. Counts(typed) = r.gpus
        BY <1>3, <2>2, <2>3
    <2> QED
        BY <2>4 DEF sum
<1> HIDE DEF typed, total, N, E
<1>6. ASSUME NEW es, Len(es) \in Nat,
             NEW k \in 1 .. Len(es), ~es[k].typed,
             \A j \in 1 .. Len(es) : ~es[j].typed => es[j].n = sum
      PROVE  ParseGPUCount(es) = sum
    <2> DEFINE i == SelectInSeq(es, LAMBDA e : ~e.typed)
    <2>1. i \in 1 .. Len(es) /\ ~es[i].typed
        BY <1>6, FirstUntyped
    <2>2. ParseGPUCount(es) = IF i # 0 THEN es[i].n ELSE Sum(Counts(es))
        BY DEF ParseGPUCount
    <2> HIDE DEF i
    <2> QED
        BY <1>6, <2>1, <2>2
<1>7. ParseGPUCount(typed) = sum
    <2> DEFINE i == SelectInSeq(typed, LAMBDA e : ~e.typed)
    <2>1. i = 0
        BY <1>2, <1>3, FirstUntyped DEF N
    <2>2. ParseGPUCount(typed) = IF i # 0 THEN typed[i].n ELSE Sum(Counts(typed))
        BY DEF ParseGPUCount
    <2> HIDE DEF i
    <2> QED
        BY <1>5, <2>1, <2>2
<1>8. ParseGPUCount(total) = sum
    <2>1. /\ Len(total) \in Nat /\ 1 \in 1 .. Len(total)
          /\ \A j \in 1 .. Len(total) : j = 1
        BY <1>4
    <2> QED
        BY <1>4, <1>6, <2>1
<1>9. ParseGPUCount(total \o typed) = sum
    <2> DEFINE es == total \o typed
    <2>0. /\ Len(es) = Len(total) + Len(typed)
          /\ \A i \in 1 .. Len(total) + Len(typed) :
                es[i] = IF i <= Len(total) THEN total[i] ELSE typed[i - Len(total)]
        BY <1>3a, ConcatProperties, Zenon
    <2> HIDE DEF es
    <2>1. /\ Len(es) = 1 + N
          /\ \A i \in 1 .. 1 + N : es[i] = IF i <= 1 THEN total[i] ELSE typed[i - 1]
        BY <1>3, <1>4, <2>0
    <2>2. N \in Nat /\ Len(es) = 1 + N
        BY <1>2, <2>1
    <2>3. es[1] = total[1] /\ \A j \in 1 .. 1 + N : j # 1 => es[j] = typed[j - 1]
        BY <2>1, <2>2
    <2>4. \A j \in 1 .. 1 + N : j # 1 => es[j].typed
        BY <1>3, <2>2, <2>3
    <2>5. 1 \in 1 .. Len(es) /\ ~es[1].typed
        BY <1>4, <2>2, <2>3
    <2>6. \A j \in 1 .. Len(es) : ~es[j].typed => es[j].n = sum
        BY <1>4, <2>2, <2>3, <2>4
    <2>7. Len(es) \in Nat
        BY <2>2
    <2>8. ParseGPUCount(es) = sum
        BY <1>6, <2>5, <2>6, <2>7
    <2> QED
        BY <2>8 DEF es
<1>10. ParseGPUCount(typed \o total) = sum
    <2> DEFINE es == typed \o total
    <2>0. /\ Len(es) = Len(typed) + Len(total)
          /\ \A i \in 1 .. Len(typed) + Len(total) :
                es[i] = IF i <= Len(typed) THEN typed[i] ELSE total[i - Len(typed)]
        BY <1>3a, ConcatProperties, Zenon
    <2> HIDE DEF es
    <2>1. /\ Len(es) = N + 1
          /\ \A i \in 1 .. N + 1 : es[i] = IF i <= N THEN typed[i] ELSE total[i - N]
        BY <1>3, <1>4, <2>0
    <2>2. N \in Nat /\ Len(es) = N + 1
        BY <1>2, <2>1
    <2>3. es[N + 1] = total[1] /\ \A j \in 1 .. N + 1 : j # N + 1 => es[j] = typed[j]
        BY <2>1, <2>2
    <2>4. \A j \in 1 .. N + 1 : j # N + 1 => es[j].typed
        <3> TAKE j \in 1 .. N + 1
        <3> HAVE j # N + 1
        <3>1. j \in 1 .. N /\ es[j] = typed[j]
            BY <2>2, <2>3
        <3> QED
            BY <1>3, <3>1
    <2>5. N + 1 \in 1 .. Len(es) /\ ~es[N + 1].typed
        BY <1>4, <2>2, <2>3
    <2>6. \A j \in 1 .. Len(es) : ~es[j].typed => es[j].n = sum
        BY <1>4, <2>2, <2>3, <2>4
    <2>7. Len(es) \in Nat
        BY <2>2
    <2>8. ParseGPUCount(es) = sum
        BY <1>6, <2>5, <2>6, <2>7
    <2> QED
        BY <2>8 DEF es
<1>11. \/ TRES(r) = typed \/ TRES(r) = total
       \/ TRES(r) = total \o typed \/ TRES(r) = typed \o total
    BY Zenon DEF TRES, typed, total
<1> QED
    BY <1>7, <1>8, <1>9, <1>10, <1>11 DEF sum

(* A record is a job's, or was reported, or was passed over; until the     *)
(* copies are dropped, only what is refused is reported.                   *)
ListingInv ==
    /\ read \in Seq(Records)
    /\ reported \subseteq DOMAIN read
    /\ \A j \in jobs :
          /\ j.at \in DOMAIN read \ reported
          /\ j = JobOf(read[j.at], j.at)
          /\ ~Refused(read[j.at])
    /\ \A place \in DOMAIN read :
          (\E j \in jobs : j.at = place) \/ place \in reported \/ PassedOver(read[place])
    /\ finished \/ \A place \in reported : Refused(read[place])
    /\ OneOfEach

LEMMA InitListing == Init => ListingInv
BY DEF Init, ListingInv, OneOfEach

(* A record more.                                                          *)
LEMMA ReadListing ==
    ASSUME ListingInv, NEW r \in Records, Read(r) PROVE ListingInv'
<1> DEFINE new == Len(read) + 1
           left == PassedOver(r) \/ Refused(r)
<1>1. /\ read \in Seq(Records) /\ reported \subseteq DOMAIN read
      /\ ~finished /\ finished' = finished /\ source' = source
      /\ read' = Append(read, r)
      /\ jobs' = IF left THEN jobs ELSE jobs \cup {JobOf(r, new)}
      /\ reported' = IF ~PassedOver(r) /\ Refused(r) THEN reported \cup {new} ELSE reported
    BY DEF Read, ListingInv
<1>2. Len(read) \in Nat /\ DOMAIN read = 1 .. Len(read)
    BY <1>1, LenProperties
<1>3. /\ read' \in Seq(Records)
      /\ DOMAIN read' = 1 .. new
      /\ \A i \in 1 .. Len(read) : read'[i] = read[i]
      /\ read'[new] = r
    BY <1>1, <1>2, AppendProperties
<1> HIDE DEF new
<1>4. new \in Nat /\ new \notin DOMAIN read /\ DOMAIN read' = DOMAIN read \cup {new}
    BY <1>2, <1>3 DEF new
<1>5. \A q : /\ Refused(q)' = Refused(q)
             /\ PassedOver(q)' = PassedOver(q)
    BY <1>1 DEF Refused, PassedOver
<1>6. \A i \in DOMAIN read : read'[i] = read[i]
    BY <1>2, <1>3
<1>7. JobOf(r, new).at = new
    BY DEF JobOf
<1>8. reported' \subseteq DOMAIN read'
    BY <1>1, <1>4
<1>9. ASSUME NEW j \in jobs'
      PROVE  /\ j.at \in DOMAIN read' \ reported'
             /\ j = JobOf(read'[j.at], j.at)
             /\ ~Refused(read'[j.at])
    <2>1. CASE j \in jobs
        <3>1. /\ j.at \in DOMAIN read \ reported
              /\ j = JobOf(read[j.at], j.at) /\ ~Refused(read[j.at])
            BY <2>1 DEF ListingInv
        <3>2. read'[j.at] = read[j.at] /\ j.at # new
            BY <1>4, <1>6, <3>1
        <3>3. j.at \in DOMAIN read' \ reported'
            BY <1>1, <1>4, <3>1, <3>2
        <3> QED
            BY <3>1, <3>2, <3>3
    <2>2. CASE j \notin jobs
        <3>1. j = JobOf(r, new) /\ ~Refused(r) /\ reported' = reported
            BY <1>1, <1>9, <2>2
        <3>2. j.at = new /\ read'[j.at] = r /\ new \notin reported
            BY <1>1, <1>3, <1>4, <1>7, <3>1
        <3> QED
            BY <1>4, <3>1, <3>2
    <2> QED
        BY <2>1, <2>2
<1>10. ASSUME NEW place \in DOMAIN read'
       PROVE  \/ \E j \in jobs' : j.at = place
              \/ place \in reported'
              \/ PassedOver(read'[place])
    <2>1. CASE place = new
        <3>1. CASE left
            BY <1>1, <1>3, <2>1, <3>1
        <3>2. CASE ~left
            BY <1>1, <1>7, <2>1, <3>2
        <3> QED
            BY <3>1, <3>2
    <2>2. CASE place # new
        <3>1. place \in DOMAIN read /\ read'[place] = read[place]
            BY <1>4, <1>6, <2>2
        <3>2. jobs \subseteq jobs' /\ reported \subseteq reported'
            BY <1>1
        <3>3. (\E j \in jobs : j.at = place) \/ place \in reported \/ PassedOver(read[place])
            BY <3>1 DEF ListingInv
        <3> QED
            BY <3>1, <3>2, <3>3
    <2> QED
        BY <2>1, <2>2
<1>11. ASSUME NEW place \in reported' PROVE Refused(read'[place])
    <2>1. CASE place \in reported
        BY <1>1, <1>6, <2>1 DEF ListingInv
    <2>2. CASE place \notin reported
        BY <1>1, <1>3, <1>11, <2>2
    <2> QED
        BY <2>1, <2>2
<1>12. OneOfEach'
    BY <1>1 DEF OneOfEach
<1>13. \A q, p : JobOf(q, p)' = JobOf(q, p)
    BY DEF JobOf
<1> QED
    BY <1>3, <1>5, <1>8, <1>9, <1>10, <1>11, <1>12, <1>13 DEF ListingInv

(* The copies go, and are reported.                                        *)
LEMMA FinishListing ==
    ASSUME ListingInv, Finish PROVE ListingInv'
<1> DEFINE dropped == IF source = "squeue" THEN Copies ELSE {}
<1>1. /\ finished' /\ source' = source /\ read' = read
      /\ jobs' = jobs \ dropped
      /\ reported' = reported \cup {j.at : j \in dropped}
      /\ ~finished
    BY DEF Finish, Each
<1>2. dropped \subseteq jobs
    BY DEF Copies
<1>3. \A q : /\ Refused(q)' = Refused(q)
             /\ PassedOver(q)' = PassedOver(q)
    BY <1>1 DEF Refused, PassedOver
<1>4. \A j \in jobs : /\ j.at \in DOMAIN read \ reported
                      /\ j = JobOf(read[j.at], j.at)
                      /\ ~Refused(read[j.at])
    BY DEF ListingInv
<1>5. \A j, k \in jobs : j.at = k.at => j = k
    BY <1>4
<1> HIDE DEF dropped
<1>6. reported' \subseteq DOMAIN read'
    BY <1>1, <1>2, <1>4 DEF ListingInv
<1>7. ASSUME NEW j \in jobs'
      PROVE  j.at \in DOMAIN read \ reported'
    BY <1>1, <1>2, <1>4, <1>5
<1>8. \A place \in DOMAIN read :
         (\E j \in jobs' : j.at = place) \/ place \in reported' \/ PassedOver(read[place])
    <2> TAKE place \in DOMAIN read
    <2>1. (\E j \in jobs : j.at = place) \/ place \in reported \/ PassedOver(read[place])
        BY DEF ListingInv
    <2> QED
        BY <1>1, <2>1
<1>9. ASSUME source = "squeue", NEW j \in jobs'
      PROVE  /\ j.start # None
             /\ \A place \in DOMAIN read \ {j.at} :
                   read[place].id = j.id => Refused(read[place])
    <2>1. j \in jobs /\ j \notin dropped
        BY <1>1
    <2>2. j = JobOf(read[j.at], j.at) /\ ~Refused(read[j.at])
        BY <1>4, <2>1
    <2>3. j.start = StartTime(read[j.at].start)
        BY <2>2 DEF JobOf
    <2>4. j.start # None
        BY <1>9, <2>2, <2>3 DEF Refused
    <2>5. ASSUME NEW place \in DOMAIN read \ {j.at}, read[place].id = j.id,
                 ~Refused(read[place])
          PROVE  FALSE
        <3>1. place \notin reported
            BY <1>1, <2>5 DEF ListingInv
        <3>2. ~PassedOver(read[place])
            BY <1>9 DEF PassedOver
        <3>3. PICK k \in jobs : k.at = place
            BY <2>5, <3>1, <3>2 DEF ListingInv
        <3>4. k.id = j.id /\ k.at # j.at
            <4>1. k = JobOf(read[place], place)
                BY <1>4, <3>3
            <4> QED
                BY <2>5, <3>3, <4>1 DEF JobOf
        <3>5. j \in Copies
            BY <2>1, <3>3, <3>4 DEF Copies
        <3> QED
            BY <1>9, <2>1, <3>5 DEF dropped
    <2> QED
        BY <2>4, <2>5
<1>10. OneOfEach'
    BY <1>1, <1>3, <1>9 DEF OneOfEach
<1>11. \A q, p : JobOf(q, p)' = JobOf(q, p)
    BY DEF JobOf
<1>12. read' \in Seq(Records)
    BY <1>1 DEF ListingInv
<1> QED
    BY <1>1, <1>3, <1>4, <1>6, <1>7, <1>8, <1>10, <1>11, <1>12 DEF ListingInv

LEMMA NextListing == ListingInv /\ [Next]_vars => ListingInv'
<1> SUFFICES ASSUME ListingInv, [Next]_vars PROVE ListingInv'
    OBVIOUS
<1>1. CASE \E r \in Records : Read(r)
    BY <1>1, ReadListing
<1>2. CASE Finish
    BY <1>2, FinishListing
<1>3. CASE UNCHANGED vars
    <2>1. /\ read' = read /\ source' = source /\ jobs' = jobs
          /\ reported' = reported /\ finished' = finished
        BY <1>3 DEF vars
    <2>2. \A q : /\ Refused(q)' = Refused(q)
                 /\ PassedOver(q)' = PassedOver(q)
        BY <2>1 DEF Refused, PassedOver
    <2>3. OneOfEach'
        BY <2>1, <2>2 DEF ListingInv, OneOfEach
    <2>4. \A q, p : JobOf(q, p)' = JobOf(q, p)
        BY DEF JobOf
    <2> QED
        BY <2>1, <2>2, <2>3, <2>4 DEF ListingInv
<1> QED
    BY <1>1, <1>2, <1>3 DEF Next

LEMMA ListingInvariant == Spec => []ListingInv
BY InitListing, NextListing, PTL DEF Spec

(* A job is made of one record that can be read, with a start time that is *)
(* one or none (normalizeTime, ParseSqueue, convertREST).                  *)
THEOREM ListingTypes == Spec => []TypeOK
<1>1. ASSUME ListingInv PROVE TypeOK
    <2> SUFFICES ASSUME NEW j \in jobs
                 PROVE  /\ j.at \in DOMAIN read \ reported
                        /\ j.nodes # Malformed
                        /\ j.start = None \/ j.start > 0
                        /\ j.gpus \in Nat
        BY <1>1 DEF TypeOK, ListingInv
    <2> DEFINE r == read[j.at]
    <2>1. /\ j.at \in DOMAIN read \ reported
          /\ j = JobOf(r, j.at) /\ ~Refused(r)
        BY <1>1 DEF ListingInv
    <2>2. r \in Records
        BY <1>1, <2>1 DEF ListingInv
    <2> HIDE DEF r
    <2>3. /\ j.nodes = r.nodes /\ j.start = StartTime(r.start)
          /\ j.gpus = ParseGPUCount(TRES(r))
        BY <2>1 DEF JobOf
    <2>4. j.nodes # Malformed
        BY <2>1, <2>3 DEF Refused
    <2>5. j.start = None \/ j.start > 0
        BY <2>3 DEF StartTime
    <2>6. j.gpus \in Nat
        BY <2>2, <2>3, CountedAsTold, ListingAssumption
    <2> QED
        BY <2>1, <2>4, <2>5, <2>6
<1> QED
    BY <1>1, ListingInvariant, PTL

(* A job holds the GPUs its record tells of, counted once                  *)
(* (ParseGPUCount).                                                        *)
THEOREM GPUsCountedOnce == Spec => []CountedOnce
<1>1. ASSUME ListingInv PROVE CountedOnce
    <2> SUFFICES ASSUME NEW j \in jobs PROVE j.gpus = Sum(read[j.at].gpus)
        BY DEF CountedOnce
    <2> DEFINE r == read[j.at]
    <2>1. j.at \in DOMAIN read /\ j = JobOf(r, j.at)
        BY <1>1 DEF ListingInv
    <2>2. r \in Records
        BY <1>1, <2>1 DEF ListingInv
    <2> HIDE DEF r
    <2>3. j.gpus = ParseGPUCount(TRES(r))
        BY <2>1 DEF JobOf
    <2>4. j.gpus = Sum(r.gpus)
        BY <2>2, <2>3, CountedAsTold
    <2> QED
        BY <2>4 DEF r
<1> QED
    BY <1>1, ListingInvariant, PTL

(* No record of a running job is left left without a report (RejectFunc).   *)
THEOREM NothingLeftOut == Spec => []NothingSilent
<1>1. ListingInv => NothingSilent
    BY DEF ListingInv, NothingSilent, PassedOver
<1> QED
    BY <1>1, ListingInvariant, PTL

(* squeue's listing yields no job that two readable lines name             *)
(* (ParseSqueue).                                                          *)
THEOREM NoCopies == Spec => []OneOfEach
<1>1. ListingInv => OneOfEach
    BY DEF ListingInv
<1> QED
    BY <1>1, ListingInvariant, PTL

=============================================================================
