------------------------------ MODULE Windows -------------------------------
(***************************************************************************)
(* The arithmetic of byte ranges, pieces and playback windows: which       *)
(* pieces a byte range covers, which bytes a Range header asks for, which  *)
(* pieces a playing session demands.  Each is a function of an input that  *)
(* one step chooses.                                                       *)
(***************************************************************************)
EXTENDS Integers, FiniteSets

CONSTANTS Layouts,   \* files: piece length, offset in the torrent, length, torrent length
          Offsets,   \* byte offsets and sizes to try, negative ones included
          Plans      \* what a window depends on besides the file and the offset

VARIABLE input

Larger(a, b) == IF a > b THEN a ELSE b
Smaller(a, b) == IF a < b THEN a ELSE b
CeilDiv(a, b) == (a + b - 1) \div b

-----------------------------------------------------------------------------
(* Spans: pieces begin..end-1.                                             *)

Span(b, e) == [begin |-> b, end |-> e]
NoSpan == Span(0, 0)
PiecesOf(s) == s.begin .. (s.end - 1)

NumPieces(f) == CeilDiv(f.total, f.pl)
BeginPiece(f) == f.off \div f.pl
EndPiece(f) == IF f.len <= 0 THEN BeginPiece(f) ELSE CeilDiv(f.off + f.len, f.pl)

\* Mutant: a range that ends inside a piece leaves that piece out.
RoundedDown(f, start, end) ==
    LET s == Larger(start, 0)
        e == Smaller(end, f.len)
    IN IF start >= end \/ s >= e THEN NoSpan
       ELSE Span(Larger((f.off + s) \div f.pl, BeginPiece(f)), Smaller((f.off + e) \div f.pl, EndPiece(f)))

\* file_piece_range
FilePieceRange(f, start, end) ==
    LET s == Larger(start, 0)
        e == Smaller(end, f.len)
        b == Larger((f.off + s) \div f.pl, BeginPiece(f))
        p == Smaller((f.off + e - 1) \div f.pl + 1, EndPiece(f))
    IN IF start >= end \/ s >= e THEN NoSpan
       ELSE IF b > p THEN Span(p, p) ELSE Span(b, p)

\* byte_region_pieces
ByteRegionPieces(f, off, size) ==
    LET n == IF off < 0 THEN size + off ELSE size
        o == Larger(off, 0)
    IN IF off >= f.total \/ n <= 0 THEN NoSpan
       ELSE Span(o \div f.pl, Smaller(CeilDiv(o + n, f.pl), NumPieces(f)))

\* parse_range of a header with one range: a suffix, or a start with or
\* without an end (-1).  The empty set stands for None.
ParseRange(f, start, end) ==
    IF start < 0
    THEN IF end <= 0 \/ f.len <= 0 THEN {}
         ELSE {<<Larger(f.len - end, 0), f.len - 1>>}
    ELSE LET e == IF end < 0 THEN f.len - 1 ELSE Smaller(end, f.len - 1)
         IN IF start >= f.len \/ start > e THEN {} ELSE {<<start, e>>}

-----------------------------------------------------------------------------
(* update_window, once the opening phase is over.                          *)

\* Mutant: the keyframes' part is divided too.
AllowanceOfAll(f, plan) ==
    LET budget == plan.budget
        reserve == LET r == Larger(budget \div 20, f.pl) IN IF r >= budget THEN 0 ELSE r
    IN Smaller(Larger(((budget - reserve) \div plan.readers) \div f.pl, 1),
               Larger((budget \div f.pl) \div plan.readers, 1))

\* The part of the cache each of the open readers may fill, in pieces; the
\* keyframes' part is not divided.
Allowance(f, plan) ==
    LET budget == plan.budget - plan.keyframes * f.pl
        reserve == LET r == Larger(budget \div 20, f.pl) IN IF r >= budget THEN 0 ELSE r
    IN Smaller(Larger(((budget - reserve) \div plan.readers) \div f.pl, 1),
               Larger((budget \div f.pl) \div plan.readers, 1))

\* How many pieces are ahead, in the forward part and urgent.
Tiers(f, plan) ==
    LET allowance == Allowance(f, plan)
        back == Larger(allowance \div 4, 1)
        forward == Larger(Smaller(CeilDiv(Larger(plan.forward, f.pl), f.pl), allowance), 1)
    IN IF plan.ghost /\ allowance >= 3
       THEN [ahead |-> allowance, forward |-> allowance - back,
             urgent |-> Smaller(Larger((allowance - back) \div 4, 1), allowance - back - 1)]
       ELSE [ahead |-> forward, forward |-> forward,
             urgent |-> Larger(Smaller(CeilDiv(plan.urgent, f.pl), forward), 1)]

\* The window at a byte of the file: bounded by the cache, or by bytes when
\* there is no cache to bound it.
Bounded(f, plan) == plan.budget - plan.keyframes * f.pl >= f.pl

Window(f, plan, pos) ==
    LET t == Tiers(f, plan)
        forward == Larger(plan.forward, plan.urgent)
        play == (f.off + pos) \div f.pl
        end == Smaller(play + t.ahead, EndPiece(f))
        urgentEnd == Smaller(play + t.urgent, end)
        forwardEnd == Smaller(play + t.forward, end)
    IN IF Bounded(f, plan)
       THEN [urgent |-> Span(play, urgentEnd), readahead |-> Span(urgentEnd, forwardEnd),
             lookahead |-> Span(forwardEnd, end)]
       ELSE [urgent |-> FilePieceRange(f, pos, Smaller(pos + plan.urgent, f.len)),
             readahead |-> FilePieceRange(f, Smaller(pos + plan.urgent, f.len), Smaller(pos + forward, f.len)),
             lookahead |-> FilePieceRange(f, Smaller(pos + forward, f.len),
                                          Smaller(pos + forward + (IF plan.ghost THEN 4 * f.pl ELSE 0), f.len))]

\* The pieces raise_span raises.
Wanted(w) == PiecesOf(w.urgent) \cup PiecesOf(w.readahead) \cup PiecesOf(w.lookahead)

-----------------------------------------------------------------------------

First == [f |-> CHOOSE f \in Layouts : TRUE, plan |-> CHOOSE p \in Plans : TRUE,
          a |-> CHOOSE a \in Offsets : TRUE, b |-> CHOOSE b \in Offsets : TRUE]

Init == input = First

\* The pieces of a byte range, or the bytes of a Range header.
AskRange ==
    /\ input = First
    /\ \E f \in Layouts, a, b \in Offsets : input' = [First EXCEPT !.f = f, !.a = a, !.b = b]

\* The window of a plan at a byte of a file.
AskWindow ==
    /\ input = First
    /\ \E f \in Layouts, plan \in Plans, a \in Offsets :
          input' = [First EXCEPT !.f = f, !.plan = plan, !.a = a]

Next == AskRange \/ AskWindow

Spec == Init /\ [][Next]_input

-----------------------------------------------------------------------------
(* Properties.                                                             *)

Overlapping(f, first, last) ==
    {p \in 0..(NumPieces(f) - 1) : \E x \in Larger(first, 0)..last : x < f.total /\ x \div f.pl = p}

\* A byte range is mapped to the pieces that hold a byte of it, no fewer and
\* no more (byte_region_pieces, file_piece_range), and a Range header to the
\* bytes of the file it names (parse_range): a player waits for no piece it
\* does not read and reads none it does not wait for.
RangesAreExact ==
    LET f == input.f  a == input.a  b == input.b
    IN /\ PiecesOf(ByteRegionPieces(f, a, b)) = Overlapping(f, a, a + b - 1)
       /\ PiecesOf(FilePieceRange(f, a, b)) =
             Overlapping(f, f.off + Larger(a, 0), f.off + Smaller(b, f.len) - 1)
       /\ LET bytes == {x \in 0..(f.len - 1) :
                          IF a < 0 THEN b > 0 /\ x >= f.len - b ELSE x >= a /\ (b < 0 \/ x <= b)}
          IN UNION {r[1]..r[2] : r \in ParseRange(f, a, b)} = bytes

\* The windows of all the readers and the keyframes fit in the RAM cache
\* ("Keyframe pieces stay in the RAM cache; the window gets the rest"), and
\* each window is a run of the file's pieces that starts with an urgent one
\* where the reader is (update_window).
WindowFitsCache ==
    LET f == input.f  plan == input.plan  pos == input.a
        w == Window(f, plan, pos)
    IN pos \in 0..(f.len - 1) =>
       /\ plan.budget - plan.keyframes * f.pl >= plan.readers * f.pl =>
            plan.readers * Cardinality(Wanted(w)) + plan.keyframes <= plan.budget \div f.pl
       /\ (f.off + pos) \div f.pl \in PiecesOf(w.urgent)
       /\ \A p \in Wanted(w) : w.urgent.begin <= p /\ (w.urgent.begin)..p \subseteq Wanted(w)
       /\ Wanted(w) \subseteq BeginPiece(f)..(EndPiece(f) - 1)

=============================================================================
