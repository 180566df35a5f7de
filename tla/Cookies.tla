------------------------------ MODULE Cookies -------------------------------
(***************************************************************************)
(* server/cookies.ts: the storage of a server-side client, which keeps the *)
(* two records of the browser client (the session, and the list of PKCE    *)
(* transactions) in the cookies of one request, cut into chunks.           *)
(*                                                                         *)
(* A jar is what a browser holds: the content of each cookie by its name,  *)
(* <<base, suffix>>.  A record is its identity and the number of chunks it *)
(* takes; a chunk is the record and its place, for what is joined from the *)
(* chunks of two records is neither.  A write answers a request: it gives  *)
(* some cookies a content and lets some expire, and the browser applies it *)
(* to the jar it has then, which need not be the one the request brought.  *)
(***************************************************************************)
EXTENDS Integers, FiniteSets

MaxChunks == 128
ChunkSize == 3000
MaxEncoded == ChunkSize * MaxChunks
MaxInput == MaxEncoded \div 4
MaxCookies == 256

Bases == {"session", "pkce"}
Cleared == [id |-> "cleared", chunks |-> 1]
NoRecord == [id |-> "none", chunks |-> 0]
Invalid == [id |-> "invalid", chunks |-> 0]
Expired == <<[id |-> "expired", chunks |-> 0], 0>>

Names(jar, base) == {n \in DOMAIN jar : n[1] = base}
Indexes(jar, base) == {n[2] : n \in Names(jar, base)}
IsIndex(suffix) == suffix \in 0 .. (MaxChunks - 1)
Chunk(record, i) == <<record, i>>

\* The chunks must be there from the first on, with no gap and no other suffix.
\* What they join to is a record only if they are all of one.
getItem(jar, base) ==
    IF Names(jar, base) = {} THEN NoRecord
    ELSE IF ~(\A i \in Indexes(jar, base) : IsIndex(i))
            \/ Indexes(jar, base) # 0 .. (Cardinality(Names(jar, base)) - 1) THEN Invalid
    ELSE LET first == jar[<<base, 0>>][1] IN
         IF \A n \in Names(jar, base) : jar[n] = Chunk(first, n[2])
            /\ first.chunks = Cardinality(Names(jar, base))
         THEN first ELSE Invalid

\* read refuses a jar with too many cookies, whosever they are.
Readable(jar) == Cardinality(DOMAIN jar) <= MaxCookies

\* For removeItem and for a session record without a session.
clear(jar, base) ==
    [n \in (IF Names(jar, base) = {} THEN {<<base, 0>>} ELSE Names(jar, base)) |-> Expired]

\* The browser client signs out by writing a record without a session.
isClearedSessionRecord(base, record) == base = "session" /\ record = Cleared

\* Every chunk, and the end of every other cookie of the record.
setItem(jar, base, record) ==
    LET chunks == {base} \X (0 .. (record.chunks - 1)) IN
    IF isClearedSessionRecord(base, record) THEN clear(jar, base)
    ELSE [n \in chunks \union Names(jar, base) |->
        IF n \in chunks THEN Chunk(record, n[2]) ELSE Expired]

\* The browser: a cookie that expires is gone.
Applied(jar, write) ==
    LET gone == {n \in DOMAIN write : write[n] = Expired} IN
    [n \in (DOMAIN jar \union DOMAIN write) \ gone |->
        IF n \in DOMAIN write THEN write[n] ELSE jar[n]]

\* The length of a record of so many code units, w bytes to each, in base64url; and its chunks.
EncodedLength(units, w) == (4 * w * units + 2) \div 3
ChunksOf(length) == (length + ChunkSize - 1) \div ChunkSize

-----------------------------------------------------------------------------
Records == [id : {"v", "w"}, chunks : 1..3]
\* Whole records, remains of a longer one, and a suffix that is no index.
Jars == UNION {[N -> {Chunk([id |-> "u", chunks |-> 2], 0)}] :
                  N \in SUBSET ({"session"} \X {0, 1, 2, 128} \union {<<"pkce", 0>>})}

(* What is written is what the next request reads, whatever was there, and *)
(* the other record is left alone; what is cleared is gone.                *)
ASSUME RoundTripAssumption ==
    \A jar \in Jars, base \in Bases : \A record \in Records :
        LET written == Applied(jar, setItem(jar, base, record))
            cleared == Applied(jar, clear(jar, base)) IN
        /\ getItem(written, base) = record
        /\ getItem(cleared, base) = NoRecord
        /\ getItem(Applied(jar, setItem(jar, "session", Cleared)), "session") = NoRecord
        /\ \A other \in Bases \ {base} :
               /\ getItem(written, other) = getItem(jar, other)
               /\ getItem(cleared, other) = getItem(jar, other)

(* Two requests of one browser that are answered after each other both     *)
(* write to the jar they brought.  The later answer prevails, except that  *)
(* it does not end the chunks by which the earlier one's record exceeds    *)
(* both it and the jar: then nothing can be read, although both writes     *)
(* were whole; and no more after a sign-out.                               *)
ASSUME CrossedAnswersAssumption ==
    \A record, before, after \in Records :
        LET jar == Applied(<< >>, setItem(<< >>, "session", [before EXCEPT !.id = "u"]))
            first == Applied(jar, setItem(jar, "session", record))
            second == Applied(first, setItem(jar, "session", after))
            signedOut == Applied(first, clear(jar, "session"))
            exceeds(n) == record.chunks > n /\ record.chunks > before.chunks IN
        /\ getItem(second, "session") = IF exceeds(after.chunks) THEN Invalid ELSE after
        /\ getItem(signedOut, "session") = IF exceeds(0) THEN Invalid ELSE NoRecord

(* A record the input bound lets through fits its chunks, which all have   *)
(* an index; two such records leave room for no other cookie of the site.  *)
ASSUME CookieBoundsAssumption ==
    /\ \A w \in 1..3 : /\ EncodedLength(MaxInput, w) <= MaxEncoded
                       /\ ChunksOf(EncodedLength(MaxInput, w)) <= MaxChunks
    /\ IsIndex(ChunksOf(EncodedLength(MaxInput, 3)) - 1)
    /\ LET full == [n \in Bases \X (0 .. (MaxChunks - 1)) |-> Chunk(NoRecord, n[2])] IN
       Readable(full) /\ ~Readable(Applied(full, [n \in {<<"other", 0>>} |-> Chunk(NoRecord, 0)]))
=============================================================================
