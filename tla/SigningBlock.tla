----------------------------- MODULE SigningBlock -----------------------------
(***************************************************************************)
(* The APK Signature Scheme v2 signer of aabox-resigner (sign.rs).  Bytes  *)
(* are counted, not modelled: a region is its length, and what is signed   *)
(* is the list of chunks the digest was taken over and the offset that     *)
(* stood in the end-of-central-directory record (EOCD) at that time.       *)
(***************************************************************************)
EXTENDS Naturals, Sequences

PAGE == 4096         \* ANDROID_COMMON_PAGE_ALIGNMENT_BYTES
CHUNK == 1048576     \* CONTENT_DIGESTED_CHUNK_MAX_SIZE_BYTES
EOCD == 22           \* without a comment
PAIR == 8 + 4        \* the size and the id of a pair of the block
HEADER_FOOTER == 8 + 8 + 16

CONSTANT NotAZip

\* A file as it may be found: how long it is, where the record's signature
\* stands in it, and what it says there.
IsArchive(zip) ==
  /\ zip.len \in Nat
  /\ \A e \in zip.eocds : {e.at, e.comment, e.cd, e.cd_size} \subseteq Nat

\* locate_zip_layout: the last EOCD signature whose comment ends the file.
\* An archive is its entries' length, its central directory's, and the places
\* behind them where the signature stands, with the comment length found there.
locate_zip_layout(zip) ==
  LET at == {e \in zip.eocds : e.at + EOCD + e.comment = zip.len}
      last == CHOOSE e \in at : \A d \in at : d.at <= e.at
  IN IF at = {} THEN NotAZip
     ELSE [cd |-> last.cd, cd_size |-> last.cd_size, eocd |-> last.at]

Padding(len) == IF len % PAGE = 0 THEN 0 ELSE PAGE - (len % PAGE)

\* Mutant of ChunksOf: the last chunk is counted in full.
ChunksOfFull(region, len) ==
  LET count == (len + CHUNK - 1) \div CHUNK
  IN [k \in 1..count |-> [region |-> region, off |-> (k - 1) * CHUNK,
                          len |-> CHUNK]]

\* The chunks of one region; the last one may be short.
ChunksOf(region, len) ==
  LET count == (len + CHUNK - 1) \div CHUNK
      rest(k) == len - (k - 1) * CHUNK
  IN [k \in 1..count |-> [region |-> region, off |-> (k - 1) * CHUNK,
                          len |-> IF rest(k) < CHUNK THEN rest(k) ELSE CHUNK]]

\* compute_chunked_sha256: the number of chunks and the chunks themselves.
compute_chunked_sha256(before, cd, eocd) ==
  LET count(len) == (len + CHUNK - 1) \div CHUNK
  IN [count |-> count(before) + count(cd) + count(eocd),
      chunks |-> ChunksOf("before", before) \o ChunksOf("cd", cd)
                 \o ChunksOf("eocd", eocd)]

\* encode_lp_elements and encode_lp_int_lp_bytes_pairs, by their length.
LpElements(lens) ==
  LET upto[k \in 0..Len(lens)] == IF k = 0 THEN 0 ELSE upto[k - 1] + 4 + lens[k]
  IN upto[Len(lens)]
LpPair(len) == 12 + len

\* build_v2_block_body for a certificate of this length: a SHA-256 digest, an
\* RSA-2048 signature and its public key.
V2Body(cert) ==
  LET signed_data == LpElements(<<LpPair(32), LpElements(<<cert>>), 0, 0>>)
      signer == LpElements(<<signed_data, LpPair(256), 294>>)
  IN LpElements(<<LpElements(<<signer>>)>>)

\* Mutant of VerityPadding: a padding too small for a pair is left small.
VerityPaddingShort(total) == Padding(total)

\* What fills the block up to a page: a pair, which takes at least 12 bytes.
VerityPadding(total) ==
  IF Padding(total) \in 1..PAIR - 1 THEN Padding(total) + PAGE
  ELSE Padding(total)

\* build_signing_block: its length, the size it states of itself, and the
\* sizes its pairs state of themselves.
build_signing_block(body) ==
  LET total == HEADER_FOOTER + PAIR + body
      padding == VerityPadding(total)
      pairs == <<4 + body>> \o IF padding = 0 THEN <<>> ELSE <<padding - 8>>
  IN [len |-> total + padding, size |-> total + padding - 8, pairs |-> pairs]

\* Mutant of SignedOffset: the digest is taken with the offset found.
SignedOffsetRaw(cd) == cd

\* The EOCD's directory offset while the digest is taken: where the block
\* will begin.
SignedOffset(cd) == cd + Padding(cd)

\* sign_apk_v2
sign_apk_v2(zip, cert) ==
  LET layout == locate_zip_layout(zip)
      before == layout.cd + Padding(layout.cd)
      block == build_signing_block(V2Body(cert))
      eocd == zip.len - layout.eocd
  IN IF layout = NotAZip \/ layout.cd + layout.cd_size > layout.eocd
     THEN NotAZip
     ELSE [before |-> before, block |-> block, cd_size |-> layout.cd_size,
           eocd |-> eocd, cd |-> before + block.len,
           signed |-> [offset |-> SignedOffset(layout.cd),
                       digest |-> compute_chunked_sha256(before,
                                    layout.cd_size, eocd)]]

-----------------------------------------------------------------------------
(* What the installer checks of a signed archive (external)                *)

\* The chunks of a region stand side by side, follow one another and cover it.
Covers(digest, region, len) ==
  LET chunks == digest.chunks
  IN \E first \in 1..Len(chunks) + 1, last \in 0..Len(chunks) :
       LET end(k) == IF k < first THEN 0 ELSE chunks[k].off + chunks[k].len
       IN /\ {k \in DOMAIN chunks : chunks[k].region = region} = first..last
          /\ \A k \in first..last : /\ chunks[k].len \in 1..CHUNK
                                    /\ chunks[k].off = end(k - 1)
          /\ end(last) = len

\* The pairs, as their stated sizes have it.
Pairs(sizes) ==
  LET upto[k \in 0..Len(sizes)] == IF k = 0 THEN 0
                                   ELSE upto[k - 1] + 8 + sizes[k]
  IN upto[Len(sizes)]

\* Walking back from the directory the block is found, its pairs fill it, it
\* begins and ends on a page, and what lies around it is what was signed.
Verifies(apk) ==
  LET begin == apk.cd - (apk.block.size + 8)
  IN /\ apk.cd = apk.before + apk.block.len
     /\ begin = apk.before
     /\ apk.cd % PAGE = 0 /\ begin % PAGE = 0
     /\ \A k \in DOMAIN apk.block.pairs : apk.block.pairs[k] >= 4
     /\ Pairs(apk.block.pairs) = apk.block.size - 8 - 16
     /\ apk.signed.offset = begin
     /\ apk.signed.digest.count = Len(apk.signed.digest.chunks)
     /\ Covers(apk.signed.digest, "before", begin)
     /\ Covers(apk.signed.digest, "cd", apk.cd_size)
     /\ Covers(apk.signed.digest, "eocd", apk.eocd)

=============================================================================
