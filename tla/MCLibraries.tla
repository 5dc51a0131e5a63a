------------------------------ MODULE MCLibraries ------------------------------
(* The bundled aws-c-common, the digests and AES, one part per behaviour: Init *)
(* chooses the part and only its calls are made, so the parts' state spaces    *)
(* add up.  The containers are extended, so that the run and the theorems      *)
(* speak of the same properties; the other parts are instances.                *)
EXTENDS ArrayList, ByteBuf, LinkedList, TLC

CONSTANTS HtKeys, HtKeyOf, HtVals, HashFn, NullKey, MaxSlots,
          LkMaxLen, B64Inputs, B64Texts, B64Caps, Width, Frequencies,
          CuTexts, CuSizeMax, Sep, DtDates, DtZone,
          DgPieces, DgMax, DgWord, AesSecrets, AesTexts

VARIABLES part, htTbl, htIter, htOut,
          lkCall, b64, numCall, cu, cuText, dt, dg, tables, aes

Ht == INSTANCE HashTable
Lk == INSTANCE Lookup3
B6 == INSTANCE Base64
Nu == INSTANCE AwsNumbers
Cu == INSTANCE Cursors
Dt == INSTANCE DateTime
Dg == INSTANCE Digest
Ae == INSTANCE Aes

table == <<htTbl, htIter, htOut>>
algorithms == <<lkCall, b64, numCall, cu, cuText, dt>>
crypto == <<dg, tables, aes>>
containers == <<alVars, bbVars, llHeap>>
vars == <<part, table, algorithms, crypto, containers>>

Init == /\ part \in {"hash", "lookup3", "base64", "numbers", "cursors", "dates",
                     "digest", "aes", "array", "buf", "lists"}
        /\ Ht!HtInit
        /\ Lk!LkInit /\ B6!B64Init /\ Nu!NumInit /\ Cu!CuInit /\ Dt!DtInit
        /\ Dg!DgInit /\ Ae!AesInit
        /\ AlInit /\ BbInit /\ LlInit

Algorithms ==
  \/ part = "lookup3" /\ Lk!LkNext /\ UNCHANGED <<b64, numCall, cu, cuText, dt>>
  \/ part = "base64" /\ B6!B64Next /\ UNCHANGED <<lkCall, numCall, cu, cuText, dt>>
  \/ part = "numbers" /\ Nu!NumNext /\ UNCHANGED <<lkCall, b64, cu, cuText, dt>>
  \/ part = "cursors" /\ Cu!CuNext /\ UNCHANGED <<lkCall, b64, numCall, dt>>
  \/ part = "dates" /\ Dt!DtNext /\ UNCHANGED <<lkCall, b64, numCall, cu, cuText>>

Crypto ==
  \/ part = "digest" /\ Dg!DgNext /\ UNCHANGED <<tables, aes>>
  \/ part = "aes" /\ Ae!AesNext /\ UNCHANGED dg

Containers ==
  \/ part = "array" /\ AlNext /\ UNCHANGED <<bbVars, llHeap>>
  \/ part = "buf" /\ BbNext /\ UNCHANGED <<alVars, llHeap>>
  \/ part = "lists" /\ LlNext /\ UNCHANGED <<alVars, bbVars>>

Next == /\ UNCHANGED part
        /\ \/ part = "hash" /\ Ht!HtNext /\ UNCHANGED <<algorithms, crypto, containers>>
           \/ Algorithms /\ UNCHANGED <<table, crypto, containers>>
           \/ Crypto /\ UNCHANGED <<table, algorithms, containers>>
           \/ Containers /\ UNCHANGED <<table, algorithms, crypto>>
Spec == Init /\ [][Next]_vars

-----------------------------------------------------------------------------
\* Two objects for one key, two keys with one hash, one whose hash is 0, and NULL.
MCKeys == {"k1", "k1b", "k2", "k3", "null"}
MCKeyOf == [k \in MCKeys |-> IF k = "k1b" THEN "k1" ELSE k]
MCHash == ("k1" :> 3) @@ ("k1b" :> 3) @@ ("k2" :> 7) @@ ("k3" :> 0) @@ ("null" :> 0)
SeqsOf(S, lengths) == UNION {[1..n -> S] : n \in lengths}
MCInputs == SeqsOf({0, 65, 255}, 0..4)
MCTexts == SeqsOf({65, 61, 0, 33}, {0, 1, 4})
           \cup {<<65, 66, 43, 47>> \o t : t \in [1..4 -> {65, 61, 33}]}
MCCursorTexts == SeqsOf({47, 65, 97, 32}, 0..2) \cup SeqsOf({47, 65, 97}, {3}) \cup {<<65, 0, 47>>, <<0>>}
Date(y, m, d, h, mi, s) == [year |-> y - 1900, mon |-> m - 1, mday |-> d, hour |-> h, min |-> mi, sec |-> s]
MCDates == {Date(1999, 12, 31, 23, 59, 59), Date(2000, 2, 29, 0, 30, 5), Date(2024, 3, 1, 12, 0, 0),
            Date(1970, 1, 1, 0, 0, 0), Date(2037, 10, 20, 8, 9, 10)}

\* The key and the text (before chaining) of FIPS 197, and another key; texts of no,
\* some and whole blocks.
MCSecrets == {[i \in 1..32 |-> i - 1], [i \in 1..32 |-> (97 * i) % 256]}
MCPlain == {<<>>, [i \in 1..15 |-> 40 + i], [i \in 1..16 |-> 16 * (i - 1)], [i \in 1..33 |-> 33 + i], <<66, 32, 10>>}

\* The items of the array lists are interchangeable: only equality looks at them.
MCSymmetry == Permutations(AlItems)
\* Sources up to more than half of SIZE_MAX, files longer than the largest buffer.
MCSources == {<<>>, <<1>>, <<2, 1>>, <<1, 1, 2>>, <<1, 1, 1, 1, 1>>, <<2, 2, 2, 2, 2, 2, 2>>}
MCFiles == {<<>>, <<1>>, <<1, 2>>, <<1, 2, 1, 2>>}

-----------------------------------------------------------------------------
\* hash_table.c: the hash table does what a map does, growth, backward shifts
\* and deletion during iteration included; and equality of tables (:1790) does
\* not see how their slots are laid out.
HashTableIsMap ==
  /\ Ht!HtMap!MapInit /\ [][part = "hash" => Ht!HtMap!MapNext]_(Ht!HtMap!mapVars)
  /\ [](part = "hash" => Ht!EqIgnoresLayout)
\* hash_table.c:371 (alignment, byte order and what lies behind a key do not
\* change its hash), encoding.c:165 (what is encoded is decoded again), math.c
\* and clock.c (exact, an error, or the nearest word), byte_buf.c:626 and string.c
\* (splits and comparisons), data_time.c (printed dates are read back).
FunctionsExact ==
  /\ part = "lookup3" => Lk!HashIgnoresPlacement
  /\ part = "base64" => B6!Base64RoundTrip
  /\ part = "numbers" => Nu!NumbersExact
  /\ part = "cursors" => Cu!CursorsExact
  /\ part = "dates" => Dt!DatesReadBack
\* md5.c:276, sha256.c:225, aes.c:800, aes_decode.c:57: the blocks digested are those
\* of the padded message, however it is cut; what AES wrote is read back, and a
\* secret of the platform is decoded to its text.
SecretsExact ==
  /\ part = "digest" => Dg!DigestsPadded
  /\ part = "aes" => Ae!SecretsReadBack
================================================================================
