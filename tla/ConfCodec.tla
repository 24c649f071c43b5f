----------------------------- MODULE ConfCodec -----------------------------
(***************************************************************************)
(* The .conf format of TunnelStore (tunnel_store.rs: serialize_conf and    *)
(* parse_conf) between the requests that write it, GetTunnel, the edit     *)
(* form of the terminal UI (index.tsx) and the commands that connect       *)
(* (wireguard.rs) makes of a tunnel.  One tunnel, one client.              *)
(*                                                                         *)
(* A text, of one line, is the non-empty sequence of its comma-separated   *)
(* parts, each without the blanks around it, which parse_conf, wg and the  *)
(* form trim: concatenating two texts puts a comma between them.  A line   *)
(* is a header, or a key with the text after the first '='; comments,      *)
(* blank lines and lines without '=' are lines of a key nobody knows.      *)
(*                                                                         *)
(* A definition named X_Something is X with a mistake in it; the runs      *)
(* check that each property notices the mistake it is paired with.         *)
(***************************************************************************)
EXTENDS SequencesExt

CONSTANTS
    Texts,          \* what clients import
    Configs,        \* what clients add
    Blank,          \* the empty part
    Numerals,       \* the decimal numbers of 16 bits, as parts of texts
    Numeral,        \* of each part, the one it parses to, or None
    AllNets, Often, \* the parts "0.0.0.0/0" and "25"
    None, NoFile, NoConfig, NoText

\* TunnelConfig and PeerConfig (types.rs), and a line of a file.
Text     == Seq(DOMAIN Numeral) \ {<<>>}
Number16 == Numerals \union {None}

Peer ==
    [public_key : Text, preshared_key : Text \union {None}, endpoint : Text,
     allowed_ips : Seq(Text), persistent_keepalive : Number16]

Tunnel ==
    [private_key : Text, address : Seq(Text), dns : Seq(Text), mtu : Number16,
     peers : Seq(Peer)]

TextLine == [key : STRING, value : Text]

ASSUME CodecConstants ==
    /\ Numerals \union {Blank, AllNets} \subseteq DOMAIN Numeral
    /\ Numeral \in [DOMAIN Numeral -> Number16]
    /\ Often \in Numerals
    /\ \A n \in Numerals : Numeral[n] = n
    /\ Numeral[Blank] = None
    /\ Texts \subseteq Seq(TextLine)
    /\ Configs \subseteq Tunnel

VARIABLES
    file,       \* the lines of the .conf file
    answer,     \* the tunnel GetTunnel returned
    \* history: the tunnel a client added or saved, or was answered by an
    \* import, and the text of the import
    saved, text

vars == <<file, answer, saved, text>>

NoPeer == [public_key |-> <<Blank>>, preshared_key |-> None, endpoint |-> <<Blank>>,
           allowed_ips |-> <<>>, persistent_keepalive |-> None]

Init ==
    /\ file = NoFile
    /\ answer = NoConfig
    /\ saved = NoConfig /\ text = NoText

-----------------------------------------------------------------------------

Line(key, value) == [key |-> key, value |-> value]

\* Texts with a comma between them; none makes the empty text.
Joined(ts) == IF ts = <<>> THEN <<Blank>> ELSE FlattenSeq(ts)

Parts(t) == [i \in DOMAIN t |-> <<t[i]>>]

Number(t) == IF Len(t) = 1 THEN Numeral[t[1]] ELSE None

\* A line for each text of a sequence, or for an optional value.
Each(key, ts)     == [i \in DOMAIN ts |-> Line(key, ts[i])]
Optional(key, v) == IF v = None THEN <<>> ELSE <<Line(key, v)>>
Numeric(key, n)  == IF n = None THEN <<>> ELSE <<Line(key, <<n>>)>>

SerializePeer_NoKeepalive(p) ==
    <<Line("[Peer]", <<Blank>>), Line("PublicKey", p.public_key)>>
        \o Optional("PresharedKey", p.preshared_key)
        \o <<Line("Endpoint", p.endpoint), Line("AllowedIPs", Joined(p.allowed_ips))>>

SerializePeer(p) ==
    <<Line("[Peer]", <<Blank>>), Line("PublicKey", p.public_key)>>
        \o Optional("PresharedKey", p.preshared_key)
        \o <<Line("Endpoint", p.endpoint), Line("AllowedIPs", Joined(p.allowed_ips))>>
        \o Numeric("PersistentKeepalive", p.persistent_keepalive)

\* serialize_conf
Serialize(c) ==
    <<Line("[Interface]", <<Blank>>), Line("PrivateKey", c.private_key)>>
        \o Each("Address", c.address) \o Each("DNS", c.dns)
        \o Numeric("MTU", c.mtu) \o <<Line("Table", <<"off">>)>>
        \o FlattenSeq([i \in DOMAIN c.peers |-> SerializePeer(c.peers[i])])

-----------------------------------------------------------------------------

\* What parse_conf has read so far: the peer it is in, if any, apart.
Fresh == [private_key |-> <<Blank>>, address |-> <<>>, dns |-> <<>>, mtu |-> None,
          peers |-> <<>>, current |-> <<>>]

Closed(r) == [r EXCEPT !.peers = @ \o r.current, !.current = <<>>]

PeerLine(p, l) ==
    CASE l.key = "PublicKey"    -> [p EXCEPT !.public_key = l.value]
      [] l.key = "PresharedKey" -> [p EXCEPT !.preshared_key = l.value]
      [] l.key = "Endpoint"     -> [p EXCEPT !.endpoint = l.value]
      [] l.key = "AllowedIPs"   -> [p EXCEPT !.allowed_ips = Parts(l.value)]
      [] l.key = "PersistentKeepalive" ->
                            [p EXCEPT !.persistent_keepalive = Number(l.value)]
      [] OTHER -> p

InterfaceLine(r, l) ==
    CASE l.key = "PrivateKey" -> [r EXCEPT !.private_key = l.value]
      [] l.key = "Address"    -> [r EXCEPT !.address = Append(@, l.value)]
      [] l.key = "DNS"        -> [r EXCEPT !.dns = Append(@, l.value)]
      [] l.key = "MTU"        -> [r EXCEPT !.mtu = Number(l.value)]
      [] OTHER -> r

ParseLine_InterfaceOnce(r, l) ==
    CASE l.key = "[Interface]" -> r
      [] l.key = "[Peer]"      -> [Closed(r) EXCEPT !.current = <<NoPeer>>]
      [] OTHER -> IF r.current = <<>> THEN InterfaceLine(r, l)
                  ELSE [r EXCEPT !.current = <<PeerLine(@[1], l)>>]

ParseLine(r, l) ==
    CASE l.key = "[Interface]" -> Closed(r)
      [] l.key = "[Peer]"      -> [Closed(r) EXCEPT !.current = <<NoPeer>>]
      [] OTHER -> IF r.current = <<>> THEN InterfaceLine(r, l)
                  ELSE [r EXCEPT !.current = <<PeerLine(@[1], l)>>]

\* parse_conf
Parse(lines) ==
    LET r == Closed(FoldLeft(ParseLine, Fresh, lines)) IN
    [private_key |-> r.private_key, address |-> r.address, dns |-> r.dns,
     mtu |-> r.mtu, peers |-> r.peers]

\* A text split at its commas into the parts that are not empty.
Split(t) == FlattenSeq([i \in DOMAIN t |-> IF t[i] = Blank THEN <<>> ELSE <<<<t[i]>>>>])

\* What connect_inner passes to wg and ip, and the servers that dns.apply writes.
ToWg(c) ==
    [private_key |-> c.private_key, address |-> c.address,
     dns |-> Split(Joined(c.dns)),
     mtu |-> IF c.mtu = None THEN 1280 ELSE c.mtu,
     peers |-> [i \in DOMAIN c.peers |->
                   [c.peers[i] EXCEPT !.allowed_ips = Joined(@)]]]

-----------------------------------------------------------------------------

Form_NoKeepalive(c) ==
    LET p == IF c.peers = <<>> THEN NoPeer ELSE c.peers[1] IN
    [private_key |-> c.private_key,
     address |-> Split(Joined(c.address)), dns |-> Split(Joined(c.dns)),
     mtu |-> None,
     peers |-> <<[NoPeer EXCEPT !.public_key = p.public_key, !.endpoint = p.endpoint,
                                !.allowed_ips = Split(Joined(p.allowed_ips))]>>]

\* TunnelEditor: its fields as they are filled in, and the tunnel it makes of
\* them: one peer, and neither a preshared key nor an MTU.
Form(c) ==
    LET p == IF c.peers = <<>> THEN NoPeer ELSE c.peers[1]
        nets == Joined(p.allowed_ips)
        ka == p.persistent_keepalive
    IN
    [private_key |-> c.private_key,
     address |-> Split(Joined(c.address)), dns |-> Split(Joined(c.dns)),
     mtu |-> None,
     peers |-> <<[public_key |-> p.public_key, preshared_key |-> None,
                  endpoint |-> p.endpoint,
                  allowed_ips |-> Split(IF nets = <<Blank>> THEN <<AllNets>> ELSE nets),
                  persistent_keepalive |-> IF ka = None THEN Often ELSE ka]>>]

AddTunnel(c) ==
    /\ file = NoFile
    /\ file' = Serialize(c)
    /\ saved' = c /\ text' = NoText
    /\ UNCHANGED answer

\* import_conf answers with the tunnel it has parsed and written.
ImportTunnel(t) ==
    /\ file = NoFile
    /\ file' = Serialize(Parse(t))
    /\ saved' = Parse(t) /\ text' = t
    /\ UNCHANGED answer

GetTunnel ==
    /\ file # NoFile
    /\ answer' = Parse(file)
    /\ UNCHANGED <<file, saved, text>>

\* The form is opened on a tunnel and saved as it is: update writes the file.
SaveEdited ==
    /\ file # NoFile /\ answer # NoConfig
    /\ file' = Serialize(Form(answer))
    /\ saved' = Form(answer) /\ text' = NoText
    /\ answer' = NoConfig

DeleteTunnel ==
    /\ file # NoFile
    /\ file' = NoFile
    /\ answer' = NoConfig /\ saved' = NoConfig /\ text' = NoText

Next ==
    \/ \E c \in Configs : AddTunnel(c)
    \/ \E t \in Texts : ImportTunnel(t)
    \/ GetTunnel \/ SaveEdited \/ DeleteTunnel

Spec == Init /\ [][Next]_vars

-----------------------------------------------------------------------------

\* What a text declares, read as a whole.  The section of a line is that of the
\* last header up to it, 0 before any.
Section(t, i) == Max({0} \union {j \in 1 .. i : t[j].key \in {"[Interface]", "[Peer]"}})
InPeer(t, i) == Section(t, i) # 0 /\ t[Section(t, i)].key = "[Peer]"

\* A key of the interface counts in every section that is not a peer's, one of
\* a peer in the section that its header begins.
OfInterface(t, key) == {i \in DOMAIN t : t[i].key = key /\ ~InPeer(t, i)}
OfPeer(t, h, key)   == {i \in DOMAIN t : t[i].key = key /\ Section(t, i) = h}

\* Of the lines is, the values of all, and that of the last.
ValuesAt(t, is) == FlattenSeq([i \in DOMAIN t |-> IF i \in is THEN <<t[i].value>> ELSE <<>>])
LastAt(t, is, default) == IF is = {} THEN default ELSE t[Max(is)].value

PeerAt(t, h) ==
    [public_key |-> LastAt(t, OfPeer(t, h, "PublicKey"), <<Blank>>),
     preshared_key |-> LastAt(t, OfPeer(t, h, "PresharedKey"), None),
     endpoint |-> LastAt(t, OfPeer(t, h, "Endpoint"), <<Blank>>),
     allowed_ips |-> Parts(LastAt(t, OfPeer(t, h, "AllowedIPs"), <<>>)),
     persistent_keepalive |->
         Number(LastAt(t, OfPeer(t, h, "PersistentKeepalive"), <<Blank>>))]

Reading(t) ==
    [private_key |-> LastAt(t, OfInterface(t, "PrivateKey"), <<Blank>>),
     address |-> ValuesAt(t, OfInterface(t, "Address")),
     dns |-> ValuesAt(t, OfInterface(t, "DNS")),
     mtu |-> Number(LastAt(t, OfInterface(t, "MTU"), <<Blank>>)),
     peers |-> FlattenSeq([h \in DOMAIN t |->
                   IF t[h].key = "[Peer]" THEN <<PeerAt(t, h)>> ELSE <<>>])]

\* A tunnel as the file can hold it: AllowedIPs is one list with commas, and
\* an empty list is a list of one empty entry.
Normal(c) ==
    [c EXCEPT !.peers = [i \in DOMAIN c.peers |->
        [c.peers[i] EXCEPT !.allowed_ips = Parts(Joined(@))]]]

\* The form can show all that connect makes of the tunnel.
Shown(c) ==
    /\ c.mtu = None /\ Len(c.peers) = 1
    /\ \A i \in DOMAIN c.address : Len(c.address[i]) = 1 /\ c.address[i] # <<Blank>>
    /\ LET p == c.peers[1] IN
        /\ p.preshared_key = None /\ p.persistent_keepalive # None
        /\ p.allowed_ips # <<>> /\ \A i \in DOMAIN p.allowed_ips : p.allowed_ips[i] # <<Blank>>

\* Whatever text is imported, with its sections and keys in any order, twice
\* or missing, the tunnel that the import answers with is what it declares.
ImportReads == text # NoText => saved = Reading(text)

\* What a file is read as later, by GetTunnel and by ConnectTunnel, is what the
\* client added, saved, or was answered, up to the commas of AllowedIPs.
ReadsAsSaved == file # NoFile => Parse(file) = Normal(saved)

\* Saving the form as it was opened changes nothing that connect uses, for the
\* tunnels that it can show entirely; the others lose what it cannot show.
EditKeepsShown ==
    [][SaveEdited /\ Shown(Parse(file)) => ToWg(Parse(file')) = ToWg(Parse(file))]_vars

=============================================================================
