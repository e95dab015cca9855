------------------------------ MODULE Handshake ------------------------------
(***************************************************************************)
(* What a host and its plugin tell each other before the first call        *)
(* (crates/go-plugin: protocol.rs, runner.rs, secure.rs, mtls.rs, and      *)
(* their use in client.rs and server.rs).  The host puts a cookie, its     *)
(* versions and a certificate authority into the child's environment; the  *)
(* plugin answers with one line of fields on its standard output.  A line  *)
(* is the sequence of its fields, the empty one when nothing was written.  *)
(***************************************************************************)
EXTENDS Naturals, Sequences, FiniteSets, FiniteSetsExt

CONSTANTS Versions,    \* of the application's protocol
          Checksums    \* what a host may require of the binary: "none", its own
                       \* checksum "good", or another one

ASSUME HandshakeAssumption ==
  /\ Versions \subseteq Nat /\ Versions # {} /\ IsFiniteSet(Versions)
  /\ Checksums \subseteq {"none", "good", "bad"} /\ Checksums # {}

CoreVersion == 1

\* Protocol::from_str.
Protocols == {"grpc", "netrpc"}

\* The host's ClientConfig (host: Client::supported_versions; cookie: it is the
\* plugin's; outer: it runs in a plugin's environment itself) and the ServeConfig
\* of the binary, unless that is no plugin of this crate.
Configs ==
  {c \in [host : SUBSET Versions \ {{}}, mtls : BOOLEAN, checksum : Checksums,
          cookie : BOOLEAN, outer : BOOLEAN, binary : {"plugin", "other"},
          versioned : SUBSET Versions, default : Versions] :
     c.binary = "other" => c.versioned = {} /\ c.default = Min(Versions)
                             /\ ~c.mtls /\ ~c.cookie /\ ~c.outer}

-----------------------------------------------------------------------------
(* The host *)

\* SecureConfig::check.
Verified(c) == c.checksum \in {"none", "good"}

\* MtlsConfig::generate, for the host's certificate; the plugin sees its authority.
Authority == "authority"

\* CmdRunner: what was set last counts, and the rest is inherited.
Over(set, inherited) ==
  [name \in DOMAIN set \cup DOMAIN inherited |->
     IF name \in DOMAIN set THEN set[name] ELSE inherited[name]]

\* Client::start.
SetByHost(c) ==
  Over(IF c.mtls THEN [cert |-> Authority] ELSE <<>>,
       [versions |-> c.host, cookie |-> IF c.cookie THEN "ours" ELSE "another"])

\* What the host was given by a host of its own.
Inherited(c) ==
  IF c.outer THEN [versions |-> {}, cookie |-> "another", cert |-> "outer authority"] ELSE <<>>

\* The child's environment.
Environment(c) == Over(SetByHost(c), Inherited(c))

-----------------------------------------------------------------------------
(* The plugin *)

\* HandshakeConfig::validate_magic_cookie.
CookieMatches(env) == "cookie" \in DOMAIN env /\ env.cookie = "ours"

\* Seeded fault: the versions are tried in ascending order.
LowestMutual(c, env) ==
  IF c.versioned = {} THEN c.default
  ELSE IF "versions" \notin DOMAIN env THEN Min(c.versioned)
  ELSE IF c.versioned \cap env.versions # {} THEN Min(c.versioned \cap env.versions)
  ELSE c.default

\* negotiate_server_version.
ServerVersion(c, env) ==
  IF c.versioned = {} THEN c.default
  ELSE IF "versions" \notin DOMAIN env THEN Min(c.versioned)
  ELSE IF c.versioned \cap env.versions # {} THEN Max(c.versioned \cap env.versions)
  ELSE c.default

\* create_listener: a Unix socket is bound and given up again, and the first
\* free port of the range is taken, if there is one.
Listeners == {"tcp", "none"}

\* serve: a certificate of its own, signed by itself.
ServerCert(env) == IF "cert" \in DOMAIN env THEN "server certificate" ELSE ""

\* ServerNegotiationLine::encode; multiplexing is not supported.
Encode(neg) ==
  <<neg.core, neg.app, neg.network, neg.address, neg.protocol>>
    \o (IF neg.cert = "" THEN <<>> ELSE <<neg.cert>>)

\* serve.
NegotiationLine(c, env, network) ==
  Encode([core |-> CoreVersion, app |-> ServerVersion(c, env), network |-> network,
          address |-> "address", protocol |-> "grpc", cert |-> ServerCert(env)])

NoLine == <<>>

\* What a process of another kind may write.
ForeignLines ==
  {<<core, app, network, address, protocol>> :
     core \in {CoreVersion, 2}, app \in Versions, network \in {"tcp", "unix", "vsock"},
     address \in {"address", "no address"}, protocol \in Protocols \cup {"http"}}
    \cup {<<"usage">>}

-----------------------------------------------------------------------------
(* The host again *)

\* ServerNegotiationLine::parse: the certificate and the multiplexing may be left out.
Parses(line) ==
  Len(line) >= 5 /\ line[1] \in Nat /\ line[2] \in Nat /\ line[5] \in Protocols

Parse(line) ==
  [core |-> line[1], app |-> line[2], network |-> line[3], address |-> line[4],
   protocol |-> line[5], cert |-> IF Len(line) > 5 THEN line[6] ELSE ""]

\* PluginAddr::parse: any path will do.
ParsesAddr(neg) == neg.network = "unix" \/ (neg.network = "tcp" /\ neg.address = "address")

\* validate_core_version, negotiate_version and PluginAddr::parse.
Acceptable(c, line) ==
  /\ Parses(line)
  /\ Parse(line).core = CoreVersion
  /\ Parse(line).app \in c.host
  /\ ParsesAddr(Parse(line))
=============================================================================
