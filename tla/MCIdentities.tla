------------------------------ MODULE MCIdentities ------------------------------
EXTENDS Identities

(* ObjectIds and the ids of a BufferIdProvider of 12 bytes are both        *)
(* written as 24 hex digits, GUIDs in base64.                              *)
MCReads ==
  {p \in Providers \X Providers : p[1] = p[2] \/ {p[1], p[2]} = {"ObjectId", "Buffer"}}

MCIdLength == [p \in Providers |-> IF p = "GUIDv4" THEN 16 ELSE 12]

Pbkdf2Config(iterations, hashBytes, algorithm) ==
  [hashBytes |-> hashBytes, saltBytes |-> hashBytes, iterations |-> iterations,
   algorithm |-> algorithm]

MCDefaultConfig == Pbkdf2Config(1, 32, "sha256")
MCPbkdf2Configs == {MCDefaultConfig, Pbkdf2Config(2, 32, "sha256"), Pbkdf2Config(2, 16, "sha512")}

AesService(keyBytes, cipherBytes, ivCells) ==
  [keyBytes |-> keyBytes, cipherBytes |-> cipherBytes, ivCells |-> ivCells]

(* The second has another IV_SIZE, the third and the fourth shorter keys,  *)
(* for which the third names the cipher.                                   *)
MCAesServices == {AesService(32, 32, 2), AesService(32, 32, 1), AesService(16, 16, 2),
                  AesService(16, 32, 2)}
=============================================================================
