-------------------------------- MODULE Pki --------------------------------
(***************************************************************************)
(* The PKI directory that easy-rsa, openssl and chmod act upon, as         *)
(* EasyRsaService uses it.  easy-rsa is not part of the repository: these  *)
(* operators say what its commands do to the files the repository reads.   *)
(* A certificate is known by its Common Name.                              *)
(***************************************************************************)
CONSTANT CN                \* the Common Names that can be issued

VARIABLES ca,              \* pki/ca.crt exists
          cert,            \* pki/issued/CN.crt, or its revocation
          key,             \* pki/private/CN.key
          crl,             \* the certificates listed by pki/crl.pem
          crlReadable      \* crl.pem can be read by the OpenVPN server

pkiVars == <<ca, cert, key, crl, crlReadable>>

PkiTypeOK == /\ ca \in BOOLEAN
             /\ cert \in [CN -> {"absent", "valid", "revoked"}]
             /\ key \in [CN -> {"none", "plain", "encrypted"}]
             /\ crl \in SUBSET CN
             /\ crlReadable \in BOOLEAN

\* A fresh server: easyrsa has been run by the administrator, or not yet.
PkiInit == /\ ca \in BOOLEAN
           /\ cert = [cn \in CN |-> "absent"]
           /\ key = [cn \in CN |-> "none"]
           /\ crl = {}
           /\ crlReadable = TRUE

\* build-client-full refuses to overwrite a key or a certificate.
CanBuild(cn) == ca /\ cert[cn] # "valid" /\ key[cn] = "none"

\* `easyrsa build-client-full CN nopass`: a key and a signed certificate.
BuildClientFull(cn) == /\ CanBuild(cn)
                       /\ cert' = [cert EXCEPT ![cn] = "valid"]
                       /\ key' = [key EXCEPT ![cn] = "plain"]
                       /\ UNCHANGED <<ca, crl, crlReadable>>

\* The same command when it stops between the key and the certificate.
BuildOnlyKey(cn) == /\ CanBuild(cn)
                    /\ key' = [key EXCEPT ![cn] = "plain"]
                    /\ UNCHANGED <<ca, cert, crl, crlReadable>>

\* The files a profile is made of are all there.
HasProfile(cn) == ca /\ cert[cn] = "valid" /\ key[cn] # "none"

\* `easyrsa revoke CN` needs pki/issued/CN.crt and moves it away, with its key.
RevokeCert(cn) == /\ ca /\ cert[cn] = "valid"
                  /\ cert' = [cert EXCEPT ![cn] = "revoked"]
                  /\ key' = [key EXCEPT ![cn] = "none"]
                  /\ UNCHANGED <<ca, crl, crlReadable>>

\* `easyrsa gen-crl` lists every revoked certificate, under umask 077.
GenCrl == /\ ca
          /\ crl' = {cn \in CN : cert[cn] = "revoked"}
          /\ crlReadable' = FALSE
          /\ UNCHANGED <<ca, cert, key>>

\* A client holding this certificate gets past the server's checks.
Accepted(cn) == cert[cn] = "valid" \/ (cert[cn] = "revoked" /\ cn \notin crl)
=============================================================================
