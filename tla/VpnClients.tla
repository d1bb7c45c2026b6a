------------------------------ MODULE VpnClients ------------------------------
(***************************************************************************)
(* What the VPN clients of this machine answer, and what is made of it:    *)
(* the five detectors (vpn/tailscale.rs, twingate.rs, netbird.rs,          *)
(* zerotier.rs, wireguard.rs), the VPN an address is tied to (bind) and    *)
(* the advice a failed probe earns (explain_unreachable, vpn/mod.rs).      *)
(*                                                                         *)
(* A client's outcome is [run, ok, says]: missing, timedOut or ran, its    *)
(* exit, and the word in its answer that is looked for ("none" for an      *)
(* answer that cannot be read).  An address is [name, ip]: a name, or "ip" *)
(* and the number it is read as.                                           *)
(*                                                                         *)
(* Abstracted: the sentences, JSON, the table of resources, and IPv4       *)
(* addresses, which are numbers of Bits bits.                              *)
(***************************************************************************)
EXTENDS Naturals, Sequences, FiniteSets

CONSTANTS
  Bits,      \* the width of an address, 32
  CgnatBase, CgnatPrefix   \* 100.64.0.0/10

Kinds == {"tailscale", "twingate", "netbird", "zerotier", "wireguard"}
UsesCgnat(kind) == kind \in {"tailscale", "twingate", "netbird"}

NotInstalled == [installed |-> FALSE, up |-> FALSE]
Installed(up) == [installed |-> TRUE, up |-> up]

-----------------------------------------------------------------------------
(* The candidates are tried in order; a missing one gives way to the next. *)
Missing == [run |-> "missing", ok |-> FALSE, says |-> "none"]
Answer(candidates) ==
  LET there == {i \in DOMAIN candidates : candidates[i].run # "missing"}
  IN  IF there = {} THEN Missing
      ELSE candidates[CHOOSE i \in there : \A j \in there : i <= j]

(* A detector: gone, wedged, or what its words mean.                       *)
Read(candidates, Up(_)) ==
  LET answer == Answer(candidates) IN
  CASE answer.run = "missing" -> NotInstalled
    [] answer.run = "timedOut" -> Installed(FALSE)
    [] OTHER -> Installed(Up(answer))

TailscaleStatus(pc) == Read(pc.tailscale, LAMBDA a : a.says = "Running")

NetbirdStatus(pc) == Read(pc.netbird, LAMBDA a : a.says = "connected")

(* Linux asks the client; elsewhere the app is there and runs, or not.     *)
TwingateStatus(pc) ==
  IF pc.os = "linux" THEN Read(pc.twingate, LAMBDA a : a.says = "online")
  ELSE IF Answer(pc.twingate).run = "missing" THEN NotInstalled
       ELSE Installed("twingate" \in pc.processes)

(* A client that may not be asked is up if its service runs.               *)
ZerotierStatus(pc) ==
  Read(pc.zerotier, LAMBDA a : IF a.says = "none" THEN "zerotier" \in pc.processes
                               ELSE a.says = "online")

(* Linux lists the interfaces, without those of NetBird (plain_tunnels),   *)
(* and then asks whichever candidate runs, a wedged one passed over;       *)
(* elsewhere the tool is there, and its service runs or not.               *)
WireguardStatus(pc) ==
  IF pc.os = "linux"
  THEN CASE pc.interfaces \ {"wt0"} # {} -> Installed(TRUE)
         [] OTHER -> IF \E i \in DOMAIN pc.wireguard : pc.wireguard[i].run = "ran"
                     THEN Installed(FALSE) ELSE NotInstalled
  ELSE IF Answer(pc.wireguard).run = "missing" THEN NotInstalled
       ELSE Installed("wireguard" \in pc.processes)

DetectAll(pc) ==
  [k \in Kinds |-> CASE k = "tailscale" -> TailscaleStatus(pc)
                     [] k = "twingate" -> TwingateStatus(pc)
                     [] k = "netbird" -> NetbirdStatus(pc)
                     [] k = "zerotier" -> ZerotierStatus(pc)
                     [] OTHER -> WireguardStatus(pc)]

-----------------------------------------------------------------------------
(* The addresses that agree with base in their first prefix bits.          *)
InCidr(ip, base, prefix) == ip \div 2 ^ (Bits - prefix) = base \div 2 ^ (Bits - prefix)

(* TwingateResource::matches: the address itself, a subdomain of a         *)
(* wildcard, the alias, or an address inside the range.                    *)
Matches(resource, host) ==
  \/ host.name # "ip" /\ host.name \in {resource.address, resource.alias}
  \/ host.parent # "none" /\ resource.wildcard = host.parent
  \/ /\ host.name = "ip" /\ resource.range # <<>>
     /\ InCidr(host.ip, resource.range[1], resource.range[2])

NeedsAuth(resource) == resource.auth \in {"required", "expired"}

(* address_hint: a name ending in .ts.net, or an address in 100.64/10.     *)
AddressHint(host) ==
  CASE host.parent = "ts.net" -> "tailscale"
    [] host.parent # "ts.net" /\ host.name = "ip" /\ InCidr(host.ip, CgnatBase, CgnatPrefix) -> "cgnat"
    [] OTHER -> "none"

Owners(statuses) == {k \in Kinds : statuses[k].installed /\ UsesCgnat(k)}

Mine(host, resources) == SelectSeq(resources, LAMBDA r : Matches(r, host))

(* bind: a resource is the client's own word, and outranks a hint.  Of     *)
(* several VPNs that may own the range none is named ("several").          *)
Bind(host, resources, statuses) ==
  CASE Mine(host, resources) # <<>> -> "twingate"
    [] OTHER ->
         CASE AddressHint(host) = "tailscale" -> "tailscale"
           [] AddressHint(host) = "cgnat" ->
                IF Owners(statuses) = {} THEN "none"
                ELSE IF Cardinality(Owners(statuses)) = 1
                     THEN CHOOSE k \in Owners(statuses) : TRUE ELSE "several"
           [] OTHER -> "none"

-----------------------------------------------------------------------------
(* Mutant of ToBlame: every VPN that is down.                              *)
ToBlameAny(statuses) == {k \in Kinds : statuses[k].installed /\ ~statuses[k].up}

(* The VPNs a dead address of the shared range may have needed.            *)
ToBlame(statuses) == {k \in Kinds : statuses[k].installed /\ ~statuses[k].up /\ UsesCgnat(k)}

Quiet == [says |-> "nothing", of |-> {}]

(* advice, from the hint alone.                                            *)
Advice(host, statuses) ==
  CASE AddressHint(host) = "tailscale" ->
         [says |-> CASE ~statuses["tailscale"].installed -> "not installed"
                     [] statuses["tailscale"].installed /\ ~statuses["tailscale"].up ->
                          "not connected"
                     [] OTHER -> "host is off",
          of |-> {"tailscale"}]
    [] AddressHint(host) = "cgnat" ->
         IF ToBlame(statuses) = {} THEN Quiet
         ELSE [says |-> "not connected", of |-> ToBlame(statuses)]
    [] OTHER -> Quiet

(* explain_unreachable with twingate_advice.                               *)
Explain(host, resources, statuses) ==
  LET mine == Mine(host, resources) IN
  IF mine = <<>> THEN Advice(host, statuses)
  ELSE [says |-> CASE ~statuses["twingate"].up -> "not connected"
                   [] statuses["twingate"].up /\ NeedsAuth(mine[1]) -> "authenticate"
                   [] OTHER -> "host is off",
        of |-> {"twingate"}]

-----------------------------------------------------------------------------
(* The peers of a tailnet, for import: nothing unless the backend runs.    *)
PreferredAddress(peer) ==
  CASE peer.dns # "" -> peer.dns
    [] peer.dns = "" /\ peer.ips # <<>> -> peer.ips[1]
    [] OTHER -> peer.host

Peers(pc, peers) ==
  LET answer == Answer(pc.tailscale) IN
  CASE answer.run = "missing" -> <<"not installed">>
    [] answer.run = "ran" /\ answer.says = "Running" ->
         <<"peers", {PreferredAddress(p) : p \in peers}>>
    [] OTHER -> <<"unavailable">>

-----------------------------------------------------------------------------
(* mod.rs:208: a WireGuard beside them "must not widen the ambiguity".     *)
(* What the glyph of an address says and what a failed probe says of it    *)
(* come from two walks over the same picture, and agree: only a VPN that   *)
(* is installed and down, or never installed, is said to be the trouble,   *)
(* and where the glyph names the one VPN the address goes through, the     *)
(* explanation blames that one and no other.                               *)
BlamesTheOwner(pc, host, resources) ==
  LET statuses == DetectAll(pc)
      bound == Bind(host, resources, statuses)
      told == Explain(host, resources, statuses)
  IN  /\ told.says = "not connected" => \A k \in told.of : ~statuses[k].up
      /\ bound \in Kinds => told.of \subseteq {bound}
      /\ bound = "several" => told.of \subseteq Owners(statuses)
      /\ bound = "none" => told = Quiet
=============================================================================
