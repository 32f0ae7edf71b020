------------------------------- MODULE ImapPack -------------------------------
(***************************************************************************)
(* IMAP response tokens, imapserver/pack.go: every token type's pack       *)
(* (the text form) and writeTo (the form written to the connection).       *)
(* Strings are sequences of runes from a small alphabet; Encode gives the  *)
(* UTF-8 bytes of a rune, and the wire is a sequence of bytes.  A          *)
(* reference parser for the string grammar of RFC 9051 (quoted, literal,   *)
(* atom, NIL) is what the written bytes are checked against: a client      *)
(* must read back exactly the value the server meant.                      *)
(***************************************************************************)
EXTENDS Naturals, Sequences, SequencesExt

CONSTANTS
    Runes,      \* the runes strings are made of
    Encode,     \* Encode[r]: the UTF-8 bytes of rune r
    AtomChars,  \* the runes of atomChar
    MaxLen,     \* longest string considered, in runes
    Numbers     \* uint32 values of number tokens

ASSUME Encode \in [Runes -> Seq(STRING)]

\* c.utf8strings(): the client enabled UTF8=ACCEPT.
Str == BoundedSeq(Runes, MaxLen)
\* range over a string yields runes; above 0x7f is a multi-byte encoding.
NonASCII(r) == Len(Encode[r]) > 1
HighBytes == UNION {ToSet(Encode[r]) : r \in {x \in Runes : NonASCII(x)}}
Bytes(s) == FlattenSeq([i \in 1..Len(s) |-> Encode[s[i]]])

DigitChar == <<"0", "1", "2", "3", "4", "5", "6", "7", "8", "9">>
CRLF == <<"CR", "LF">>

\* fmt %d of a non-negative integer.
RECURSIVE Digits(_)
Digits(n) == IF n < 10 THEN <<DigitChar[n + 1]>>
             ELSE Digits(n \div 10) \o <<DigitChar[(n % 10) + 1]>>

\* fmt.Sprintf("{%d}\r\n", n): the literal header.
Header(n) == <<"{">> \o Digits(n) \o <<"}">> \o CRLF

-----------------------------------------------------------------------------
(* Tokens.  Every token is a record; kind names its Go type.               *)

Tok(kind, s) == [kind |-> kind, s |-> s, n |-> 0, elems |-> <<>>]
nilt == Tok("nil", <<>>)

\* nilOrString: NIL for the empty string, string0 otherwise.
NilOrString(s) == IF s = <<>> THEN nilt ELSE Tok("string0", s)

\* syncliteral.pack: the header counts len(t), the bytes of the string.
Syncliteral(s) == Header(Len(Bytes(s))) \o Bytes(s)

\* A rune string0 cannot put between quotes.
NeedsLiteral(u, r) == r \in {"NUL", "CR", "LF"} \/ (NonASCII(r) /\ ~u)

\* The quoted form: `\` before every `\` and `"`.
Escape(r) == IF r \in {"\\", "\""} THEN <<"\\">> \o Encode[r] ELSE Encode[r]
Quoted(s) == <<"\"">> \o FlattenSeq([i \in 1..Len(s) |-> Escape(s[i])]) \o <<"\"">>

\* Variant: the escape of `\` is missing.
String0NoBackslash(u, s) ==
    IF \E i \in 1..Len(s) : NeedsLiteral(u, s[i]) THEN Syncliteral(s)
    ELSE <<"\"">> \o FlattenSeq([i \in 1..Len(s) |->
                       IF s[i] = "\"" THEN <<"\\", "\"">> ELSE Encode[s[i]]])
         \o <<"\"">>

\* string0.pack: the quoted form, unless a rune the loop meets returns the
\* syncliteral of the whole string.
String0(u, s) ==
    IF \E i \in 1..Len(s) : NeedsLiteral(u, s[i]) THEN Syncliteral(s)
    ELSE Quoted(s)

\* astring.pack: the bare atom when every rune is an atomChar and the
\* string is not empty, string0 otherwise.
Astring(u, s) ==
    IF s # <<>> /\ \A i \in 1..Len(s) : s[i] \in AtomChars THEN Bytes(s)
    ELSE String0(u, s)

\* listspace: "(", the elements separated by " ", ")".
Listspace(parts) ==
    <<"(">> \o FlattenSeq([i \in 1..Len(parts) |->
                 IF i > 1 THEN <<" ">> \o parts[i] ELSE parts[i]]) \o <<")">>

\* pack(c) of every token type.
RECURSIVE Pack(_, _)
Pack(u, t) ==
    CASE t.kind = "bare"        -> Bytes(t.s)
      [] t.kind = "nil"         -> <<"N", "I", "L">>
      [] t.kind = "string0"     -> String0(u, t.s)
      [] t.kind = "dquote"      -> Quoted(t.s)
      [] t.kind = "syncliteral" -> Syncliteral(t.s)
      [] t.kind = "readersize"  -> Header(t.n) \o Bytes(t.s)
      [] t.kind = "reader"      -> Syncliteral(t.s)
      [] t.kind = "list"        -> Listspace([i \in 1..Len(t.elems) |-> Pack(u, t.elems[i])])
      [] t.kind = "concat"      -> FlattenSeq([i \in 1..Len(t.elems) |-> Pack(u, t.elems[i])])
      [] t.kind = "astring"     -> Astring(u, t.s)
      [] t.kind = "number"      -> Digits(t.n)

\* Variant: syncliteral.writeTo counts runes instead of bytes.
WriteToRunes(u, t) ==
    IF t.kind = "syncliteral" THEN Header(Len(t.s)) \o Bytes(t.s) ELSE Pack(u, t)

\* writeTo(c, w) of every token type: syncliteral writes its header and
\* then its bytes; readerSizeSyncliteral writes the header with t.size and
\* copies at most t.size bytes; readerSyncliteral reads everything, then
\* writes the header and the bytes; the lists write their elements in
\* place; the others write their pack.
RECURSIVE WriteTo(_, _)
WriteTo(u, t) ==
    CASE t.kind = "syncliteral" -> Header(Len(Bytes(t.s))) \o Bytes(t.s)
      [] t.kind = "readersize"  -> Header(t.n) \o SubSeq(Bytes(t.s), 1, t.n)
      [] t.kind = "reader"      -> Header(Len(Bytes(t.s))) \o Bytes(t.s)
      [] t.kind = "list"        -> Listspace([i \in 1..Len(t.elems) |-> WriteTo(u, t.elems[i])])
      [] t.kind = "concat"      -> FlattenSeq([i \in 1..Len(t.elems) |-> WriteTo(u, t.elems[i])])
      [] OTHER                  -> Pack(u, t)

-----------------------------------------------------------------------------
(* The reference: a client reading a string of RFC 9051 (section 9,        *)
(* string, astring, nstring) from the bytes.  A result is                  *)
(* [ok, nil, val, rest]: whether it parsed, whether it was NIL, the bytes  *)
(* of the value, and what follows.                                         *)

Fail == [ok |-> FALSE, nil |-> FALSE, val |-> <<>>, rest |-> <<>>]
Got(isNil, v, rest) == [ok |-> TRUE, nil |-> isNil, val |-> v, rest |-> rest]

AtomBytes == UNION {ToSet(Encode[r]) : r \in AtomChars}

\* quoted: QUOTED-CHAR is a TEXT-CHAR (no CR, LF or NUL) other than the
\* quoted-specials, an escaped quoted-special, or UTF-8 when enabled.
RECURSIVE QuotedBody(_, _, _)
QuotedBody(u, w, acc) ==
    IF w = <<>> THEN Fail
    ELSE LET b == Head(w) IN
         IF b = "\"" THEN Got(FALSE, acc, Tail(w))
         ELSE IF b = "\\"
              THEN IF Len(w) >= 2 /\ w[2] \in {"\\", "\""}
                   THEN QuotedBody(u, Tail(Tail(w)), Append(acc, w[2]))
                   ELSE Fail
         ELSE IF b \in {"CR", "LF", "NUL"} \/ (b \in HighBytes /\ ~u) THEN Fail
         ELSE QuotedBody(u, Tail(w), Append(acc, b))

\* literal: "{" number "}" CRLF, then exactly that many bytes.
RECURSIVE LiteralCount(_, _, _)
LiteralCount(w, n, seen) ==
    IF w = <<>> THEN Fail
    ELSE IF Head(w) = "}" /\ seen
         THEN IF Len(w) >= 3 /\ w[2] = "CR" /\ w[3] = "LF" /\ Len(w) - 3 >= n
              THEN Got(FALSE, SubSeq(w, 4, 3 + n), SubSeq(w, 4 + n, Len(w)))
              ELSE Fail
    ELSE IF \E d \in 0..9 : DigitChar[d + 1] = Head(w)
         THEN LET d == CHOOSE d \in 0..9 : DigitChar[d + 1] = Head(w)
              IN LiteralCount(Tail(w), 10 * n + d, TRUE)
         ELSE Fail

\* atom: one or more ATOM-CHARs.
RECURSIVE AtomRun(_, _)
AtomRun(w, acc) ==
    IF w # <<>> /\ Head(w) \in AtomBytes THEN AtomRun(Tail(w), Append(acc, Head(w)))
    ELSE IF acc = <<>> THEN Fail ELSE Got(FALSE, acc, w)

\* One string in context ctx: "string" (quoted or literal), "astring"
\* (also an atom) or "nstring" (also the atom NIL).
ParseString(u, ctx, w) ==
    IF w = <<>> THEN Fail
    ELSE IF Head(w) = "\"" THEN QuotedBody(u, Tail(w), <<>>)
    ELSE IF Head(w) = "{" THEN LiteralCount(Tail(w), 0, FALSE)
    ELSE IF ctx = "astring" THEN AtomRun(w, <<>>)
    ELSE IF ctx = "nstring" /\ IsPrefix(<<"N", "I", "L">>, w)
         THEN Got(TRUE, <<>>, SubSeq(w, 4, Len(w)))
    ELSE Fail

\* "(" nstring *(SP nstring) ")" or "()": the parsed items and the rest.
RECURSIVE ListItems(_, _, _)
ListItems(u, w, items) ==
    LET e == ParseString(u, "nstring", w) IN
    IF ~e.ok \/ e.rest = <<>> THEN [ok |-> FALSE, items |-> items, rest |-> <<>>]
    ELSE LET its == Append(items, [nil |-> e.nil, val |-> e.val]) IN
         IF Head(e.rest) = ")" THEN [ok |-> TRUE, items |-> its, rest |-> Tail(e.rest)]
         ELSE IF Head(e.rest) = " " THEN ListItems(u, Tail(e.rest), its)
         ELSE [ok |-> FALSE, items |-> its, rest |-> <<>>]

ParseList(u, w) ==
    IF Len(w) >= 2 /\ w[1] = "(" /\ w[2] = ")"
    THEN [ok |-> TRUE, items |-> <<>>, rest |-> SubSeq(w, 3, Len(w))]
    ELSE IF w # <<>> /\ Head(w) = "(" THEN ListItems(u, Tail(w), <<>>)
    ELSE [ok |-> FALSE, items |-> <<>>, rest |-> <<>>]

-----------------------------------------------------------------------------
(* A response: the server packs a token (for its trace or a larger         *)
(* string) and writes it to the client, followed by the line's CRLF.       *)

\* Strings of the types a client reads back.
StringKinds == {"string0", "astring", "syncliteral", "reader", "readersize",
                "dquote", "nil"}

Tokens ==
    {Tok(k, s) : k \in {"bare", "string0", "dquote", "syncliteral", "reader",
                        "astring"}, s \in Str}
    \cup {NilOrString(s) : s \in Str}
    \cup {[Tok("readersize", s) EXCEPT !.n = Len(Bytes(s))] : s \in Str}
    \cup {[Tok("number", <<>>) EXCEPT !.n = n] : n \in Numbers}
    \cup {[Tok("list", <<>>) EXCEPT !.elems = [i \in 1..Len(l) |-> NilOrString(l[i])]]
            : l \in BoundedSeq(Str, 2)}
    \cup {[Tok("concat", <<>>) EXCEPT !.elems = <<Tok("bare", s), Tok("astring", s)>>]
            : s \in Str}

NotWritten == <<"none">>

VARIABLES
    utf8,    \* c.utf8strings()
    tok,     \* the token of the response
    packed,  \* tok.pack(c), or NotWritten
    wire     \* the bytes written by tok.writeTo(c, w) and the CRLF

vars == <<utf8, tok, packed, wire>>

TypeOK ==
    /\ utf8 \in BOOLEAN
    /\ tok \in Tokens
    /\ packed \in Seq(STRING)
    /\ wire \in Seq(STRING)

Init ==
    /\ utf8 \in BOOLEAN
    /\ tok \in Tokens
    /\ packed = NotWritten
    /\ wire = NotWritten

PackToken ==
    /\ packed = NotWritten
    /\ packed' = Pack(utf8, tok)
    /\ UNCHANGED <<utf8, tok, wire>>

WriteToken ==
    /\ wire = NotWritten
    /\ wire' = WriteTo(utf8, tok) \o CRLF
    /\ UNCHANGED <<utf8, tok, packed>>

Done == packed # NotWritten /\ wire # NotWritten /\ UNCHANGED vars

Next == PackToken \/ WriteToken \/ Done

Spec == Init /\ [][Next]_vars

-----------------------------------------------------------------------------

\* The value a client must read back for a string token.
Meant(t) == [ok |-> TRUE, nil |-> t.kind = "nil", val |-> Bytes(t.s), rest |-> CRLF]

\* The grammar the client reads the token with.
Context(t) == CASE t.kind = "astring" -> "astring"
                [] t.kind \in {"nil", "string0"} -> "nstring"
                [] OTHER -> "string"

\* dquote quotes whatever it is given: only strings a quoted string can
\* hold are read back.
Quotable(u, s) == \A i \in 1..Len(s) : ~NeedsLiteral(u, s[i])

\* A client reading the token from `bytes` (followed by the line's CRLF)
\* gets exactly the string's bytes, or the same items for a list.
ReadsBack(bytes) ==
    /\ (tok.kind \in StringKinds /\ (tok.kind = "dquote" => Quotable(utf8, tok.s)))
          => ParseString(utf8, Context(tok), bytes) = Meant(tok)
    /\ tok.kind = "list" =>
          ParseList(utf8, bytes) =
              [ok |-> TRUE, rest |-> CRLF,
               items |-> [i \in 1..Len(tok.elems) |->
                            [nil |-> tok.elems[i].kind = "nil",
                             val |-> Bytes(tok.elems[i].s)]]]

\* Whatever string0, astring, nilOrString, the syncliterals and (for a
\* quotable string) dquote choose between atom, quoted string, literal and
\* NIL, and whatever the client's UTF8=ACCEPT state, a client parsing the
\* bytes that pack returns, and the bytes that writeTo puts on the
\* connection, reads exactly the string's bytes and stops at the line's
\* CRLF; a listspace of nilOrStrings reads back as the same items.
RoundTrip ==
    /\ packed # NotWritten => ReadsBack(packed \o CRLF)
    /\ wire # NotWritten => ReadsBack(wire)
====
