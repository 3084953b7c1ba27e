----------------------------- MODULE KtlsSetup -----------------------------
(***************************************************************************)
(* Which cipher suites the kernel takes: the probe CompatibleCiphers and   *)
(* the calls by which setup_inner hands a connection to the kernel         *)
(* (ktls/src/lib.rs, ffi.rs).  A kernel has TLS as an upper level protocol *)
(* or not, and takes some suites for each direction; it is external.       *)
(***************************************************************************)
Version == {"tls12", "tls13"}
BulkAlgorithm == {"Aes128Gcm", "Aes256Gcm", "Chacha20Poly1305"}
Suite == Version \X BulkAlgorithm
Direction == {"Tx", "Rx"}

IsKernel(k) == k \in [ulp : BOOLEAN, takes : [Direction -> SUBSET Suite]]

\* CryptoInfo::from_rustls: the version and the cipher type for the kernel.
CryptoInfo(suite) == [version |-> suite[1], cipher_type |-> suite[2]]

SetupTlsInfo(kernel, dir, info) == <<info.version, info.cipher_type>> \in kernel.takes[dir]

\* sample_cipher_setup tries the transmitting direction only.
SampleCipherSetup(kernel, suite) ==
    kernel.ulp /\ SetupTlsInfo(kernel, "Tx", CryptoInfo(suite))

\* CompatibleCiphersForVersion, and the suite test_ciphers tries for a field.
Field == {"aes_gcm_128", "aes_gcm_256", "chacha20_poly1305"}

TestedSuite(version, field) ==
    CASE field = "aes_gcm_128" -> <<version, "Aes128Gcm">>
      [] field = "aes_gcm_256" -> <<version, "Aes256Gcm">>
      [] field = "chacha20_poly1305" -> <<version, "Chacha20Poly1305">>

TestCiphers(kernel) ==
    [v \in Version |-> [f \in Field |-> SampleCipherSetup(kernel, TestedSuite(v, f))]]

BulkField(bulk) ==
    CASE bulk = "Aes128Gcm" -> "aes_gcm_128"
      [] bulk = "Aes256Gcm" -> "aes_gcm_256"
      [] bulk = "Chacha20Poly1305" -> "chacha20_poly1305"

CompatibleWithEither(ciphers, suite) ==
    \E v \in Version : ciphers[v][BulkField(suite[2])]

IsCompatible(ciphers, suite) == ciphers[suite[1]][BulkField(suite[2])]
=============================================================================
