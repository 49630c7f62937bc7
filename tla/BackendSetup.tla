---------------------------- MODULE BackendSetup ----------------------------
(***************************************************************************)
(* How a storage backend comes to be: the settings that are given on the   *)
(* command line (src/main.go), those of them that reach plugin.Config, the *)
(* choice of the backend (FromConfig, src/storage/backend/backend.go) and  *)
(* its constructor New (src/storage/backend/*/*.go), with the calls it     *)
(* makes, which may fail or never be answered.                             *)
(***************************************************************************)
EXTENDS Naturals, Sequences

VARIABLES
    kind,       \* Config.Backend
    given,      \* the flags of the backend that are given on the command line
    calls,      \* calls that New has still to wait for, the first one made
    built,      \* what FromConfig has returned, or how it ended
    client      \* given flags that the backend's client was made with

setupVars == <<kind, given, calls, built, client>>

(* The flags that main declares for a backend, by their first name. *)
Declared == [
    s3         |-> {"endpoint", "bucket", "access-key", "secret-key", "region",
                    "path-style", "acl", "encryption"},
    gcs        |-> {"endpoint", "bucket", "gcs.api-key", "gcs.json-key", "gcs.acl",
                    "gcs.encryption-key"},
    azure      |-> {"azure.account-name", "azure.account-key",
                    "azure.blob-container-name", "azure.blob-storage-url",
                    "azure.blob-max-retry-requets"},
    filesystem |-> {"filesystem.cache-root"},
    sftp       |-> {"sftp.cache-root", "sftp.username", "sftp.password",
                    "sftp.public-key-file", "sftp.auth-method", "sftp.host",
                    "sftp.port"}]

(* Kinds of backends; anything else is an error. *)
Kinds == DOMAIN Declared \cup {"unknown"}

Flags(k) == IF k \in DOMAIN Declared THEN Declared[k] ELSE {}

(* The names under which run reads the configuration of a backend.  A name
   that no flag has reads as if it were not given. *)
ReadAs == [
    s3         |-> Declared.s3,
    gcs        |-> {"endpoint", "bucket", "gcs.api-key", "gcsjson-key",
                    "gcs.encryption-key"},
    azure      |-> {"azure.account-name", "azure.account-key",
                    "azure.container-name", "azure.blob-storage-url"},
    filesystem |-> Declared.filesystem,
    sftp       |-> Declared.sftp]

Configured == IF kind = "unknown" THEN {} ELSE given \cap ReadAs[kind]

Has(f) == f \in Configured

-----------------------------------------------------------------------------
(* The constructors *)

(* s3 uses a key and a secret together only; gcs drops the options that
   setAuthenticationMethod returns.  Which of password and key file the method
   of sftp asks for is not told apart. *)
Unused == CASE
       kind = "s3"   -> IF Has("access-key") /\ Has("secret-key") THEN {}
                        ELSE {"access-key", "secret-key"}
    [] kind = "gcs"  -> {"gcs.api-key", "gcs.json-key"}
    [] OTHER         -> {}

(* What New can find wrong before it calls anyone: an empty or root directory;
   no account, or a key that is not base64; no or an unknown method, or a key
   file that cannot be read. *)
MayRefuse == kind # "s3" /\ kind # "gcs"

MustRefuse ==
    \/ kind = "unknown"
    \/ kind = "azure" /\ ~(Has("azure.account-name") /\ Has("azure.account-key"))
    \/ kind = "sftp" /\ ~Has("sftp.auth-method")

(* session.Must panics on an environment that the SDK cannot read; azure goes on
   with no URL if the one it has put together does not parse. *)
MayPanic == kind \in {"s3", "azure"}

(* The calls New makes.  gcs looks for default credentials, twice if it is to
   make its own transport: it does so for an endpoint with https only. *)
CallsOf(https) == CASE
       kind = "azure"      -> <<"create-container">>
    [] kind = "filesystem" -> <<"stat">>
    [] kind = "sftp"       -> <<"dial", "handshake", "open-session", "stat">>
    [] kind = "gcs"        -> (IF Has("gcs.api-key") THEN <<>> ELSE <<"find-credentials">>)
                              \o (IF https THEN <<"make-transport">> ELSE <<>>)
    [] OTHER               -> <<>>

(* Mutant: the container is made without a context of its own. *)
BoundedButCreate == {"find-credentials", "make-transport", "dial"}

(* Calls that have a deadline: a context, or the timeout of the TCP dial. *)
Bounded == {"create-container", "find-credentials", "make-transport", "dial"}

Calls == {"create-container", "find-credentials", "make-transport", "dial", "handshake",
          "open-session", "stat"}

(* Calls whose failure is only logged, when it is an answer of storage, or in
   any case. *)
MayBeIgnored == {"create-container", "find-credentials"}

NotBuilt == calls = <<>> /\ built = "none" /\ client = {}

Builds(b) ==
    /\ calls' = <<>> /\ built' = b
    /\ client' = IF b = "ready" THEN Configured \ Unused ELSE {}

(* The next call is made, if there is one; the client is ready if not. *)
GoOn(rest) ==
    IF rest = <<>> THEN Builds("ready")
    ELSE calls' = rest /\ UNCHANGED <<built, client>>

(* FromConfig calls New. *)
New ==
    /\ NotBuilt
    /\ \/ (MayRefuse \/ MustRefuse) /\ Builds("error")
       \/ ~MustRefuse /\ MayPanic /\ Builds("panic")
       \/ ~MustRefuse /\ \E https \in BOOLEAN :
            (https => Has("endpoint")) /\ GoOn(CallsOf(https))
    /\ UNCHANGED <<kind, given>>

CallReturns ==
    /\ calls # <<>>
    /\ GoOn(Tail(calls))
    /\ UNCHANGED <<kind, given>>

CallFails ==
    /\ calls # <<>>
    /\ \/ Head(calls) # "find-credentials" /\ Builds("error")
       \/ Head(calls) \in MayBeIgnored /\ GoOn(Tail(calls))
    /\ UNCHANGED <<kind, given>>

(* The deadline of a call passes.  Default credentials are done without. *)
CallTimesOut ==
    /\ calls # <<>> /\ Head(calls) \in Bounded
    /\ IF Head(calls) = "find-credentials" THEN GoOn(Tail(calls)) ELSE Builds("error")
    /\ UNCHANGED <<kind, given>>

SetupStep == New \/ CallReturns \/ CallFails \/ CallTimesOut

(* Every flag that is given for the backend has reached its client. *)
GivenIsUsed == built = "ready" => given \subseteq client
=============================================================================
