------------------------------- MODULE AcceptKey ------------------------------
(***************************************************************************)
(* The key both handshakes compute: clientHandshake encodes sixteen random *)
(* bytes as the request's key and hashes that text followed by the magic   *)
(* one; ServerHandshake hashes the key it was sent.  The digest, encoded,  *)
(* is what the response has to contain.                                    *)
(***************************************************************************)
EXTENDS Base64, Sha1, Fips180, SequencesExt

CONSTANT ClientKeys     \* the values of Sec-WebSocket-Key a server may be sent

VARIABLES
  caller,       \* "client", "server", or "neither": Base64 is used on its own
  hashState,    \* Sha1's state, five words
  round,        \* where hashBlock is: the rounds that are over, 81 when it has returned
  words, registers,
  schedule, reference,  \* history: FIPS 180-2's schedule and registers of the block
  b64Result     \* the answer's key, <<>> before it is computed

blockVars == <<round, words, registers, schedule, reference>>
keyVars == <<base64Vars, shaVars, caller, hashState, b64Result, blockVars>>

Returned == 81
keySize == 16
magic ==        \* "258EAFA5-E914-47DA-95CA-C5AB0DC85B11"
  <<50, 53, 56, 69, 65, 70, 65, 53, 45, 69, 57, 49, 52, 45, 52, 55, 68, 65, 45,
    57, 53, 67, 65, 45, 67, 53, 65, 66, 48, 68, 67, 56, 53, 66, 49, 49>>

\* The character of a digit in b64_alphabet, or the padding.
b64_alphabet(d) ==
  CASE d < 26 -> 65 + d [] d \in 26..51 -> 71 + d [] d \in 52..61 -> d - 4
    [] d = 62 -> 43 [] d = 63 -> 47 [] d = Pad -> 61
Text(digits) == [k \in DOMAIN digits |-> b64_alphabet(digits[k])]

ASSUME ClientKeysAssumption == ClientKeys \subseteq Seq(1..255) \ {<<>>}

MagicFirst(key) == magic \o key     \* fault: the two are hashed in the other order
\* The two calls of update().
Updates(key) == key \o magic

-------------------------------------------------------------------------------

KeyInit ==
  /\ \/ caller = "client" /\ input \in {i \in Inputs : Len(i) = keySize}
        /\ message = Updates(Text(base64_encode(input)))
     \/ caller = "server" /\ input = <<>> /\ message \in {Updates(k) : k \in ClientKeys}
     \/ caller = "neither" /\ input \in {i \in Inputs : Len(i) # keySize} /\ message = <<>>
  /\ Base64Init /\ ShaInit
  /\ hashState = sha1InitState /\ b64Result = <<>>
  /\ round = Returned /\ words = <<>> /\ registers = <<>>
  /\ schedule = <<>> /\ reference = <<>>

\* The client's key is encoded before anything is hashed.
EncodeKey ==
  /\ caller # "server" /\ Encode
  /\ UNCHANGED <<shaVars, caller, hashState, b64Result, blockVars>>

DecodeText ==
  /\ caller = "neither" /\ Decode
  /\ UNCHANGED <<shaVars, caller, hashState, b64Result, blockVars>>

CallHashBlock(block) ==
  /\ round' = 0 /\ words' = Words(block) /\ registers' = hashState
  /\ schedule' = <<>> /\ reference' = hashState

\* A block that is full goes through hashBlock before the next byte is taken.
HashByte ==
  /\ \/ caller = "server"
     \/ caller = "client" /\ stage = "encoded"
  /\ round = Returned /\ ShaNext
  /\ IF hashed' = hashed THEN UNCHANGED blockVars ELSE CallHashBlock(Last(hashed'))
  /\ UNCHANGED <<base64Vars, caller, hashState, b64Result>>

HashRound ==
  /\ round < 80 /\ round' = round + 1
  /\ words' = NextWords(round, words)
  /\ registers' = NextRegisters(round, words, registers)
  /\ schedule' = Scheduled80(schedule, Last(hashed), round)
  /\ reference' = Step(round, reference, schedule')
  /\ UNCHANGED <<base64Vars, shaVars, caller, hashState, b64Result>>

HashReturns ==
  /\ round = 80 /\ round' = Returned
  /\ hashState' = AddState(hashState, registers)
  /\ words' = <<>> /\ registers' = <<>> /\ schedule' = <<>> /\ reference' = <<>>
  /\ UNCHANGED <<base64Vars, shaVars, caller, b64Result>>

\* finish() hands out the state; twenty bytes are encoded, and not the one
\* behind them in result[21].
AnswerKey ==
  /\ done = "finished" /\ round = Returned /\ b64Result = <<>>
  /\ b64Result' = Text(base64_encode(DigestBytes(hashState)))
  /\ UNCHANGED <<base64Vars, shaVars, caller, hashState, blockVars>>

KeyNext == EncodeKey \/ DecodeText \/ HashByte \/ HashRound \/ HashReturns \/ AnswerKey

KeySpec == KeyInit /\ [][KeyNext]_keyVars

-------------------------------------------------------------------------------
(* Properties. *)

\* Round by round hashBlock, which keeps sixteen words of the message schedule in
\* the block and rewrites Ch and Maj, computes FIPS 180-2's registers.
RoundsAsFips180 == registers = reference

\* The key in the answer is the encoding of the last state's twenty bytes: for the
\* nonce of RFC 6455's example (1.3) it is the example's, "s3pPLMBiTxaQ9kYGzzhZRbK+xOo=".
SampleNonce == <<116, 104, 101, 32, 115, 97, 109, 112, 108, 101, 32, 110, 111, 110, 99, 101>>
SampleAccept ==
  <<115, 51, 112, 80, 76, 77, 66, 105, 84, 120, 97, 81, 57, 107, 89, 71, 122,
    122, 104, 90, 82, 98, 75, 43, 120, 79, 111, 61>>
AnswersAsRfc6455 == input = SampleNonce /\ b64Result # <<>> => b64Result = SampleAccept
===============================================================================
