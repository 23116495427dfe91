------------------------------ MODULE Firewall ------------------------------
(***************************************************************************)
(* How vtysh makes /etc/config/firewall (wgshell/vtysh/cmd: cmd_fw.c,      *)
(* cmd_vpn.c).  "sfirewall filter apply" and "sfirewall nat portmap apply" *)
(* each translate a text file of rules into a rule file; then              *)
(* apply_firewall_rules puts the firewall together from firewall.ORG, a    *)
(* copy it made the first time, and both rule files.  "wg listenport"      *)
(* adds its rule to the firewall itself.                                   *)
(***************************************************************************)
EXTENDS Naturals, Sequences

CONSTANTS
  Rules,     \* lines of the text files that are rules
  Junk,      \* a line that is not, or has too few words
  Ports,     \* listen ports
  Missing    \* no such file

Kinds == {"filter", "nat"}

ASSUME FirewallAssumption == Junk \notin Rules /\ Missing \notin Seq(Rules \cup Ports)

\* An entry of the firewall: a rule of one of the two kinds, or a listen port.
Entries == [kind : Kinds, of : Rules] \cup [kind : {"port"}, of : Ports]

FirewallState ==
  [txt   : [Kinds -> Seq(Rules \cup {Junk}) \cup {Missing}],   \* filter.txt, portmap.txt
   rules : [Kinds -> Seq(Entries) \cup {Missing}],             \* sfirewall_filter, sfirewall_nat
   org   : Seq(Entries) \cup {Missing},                        \* firewall.ORG
   uci   : Seq(Entries)]                                       \* firewall, without what it came with

NoFirewall == [txt |-> [k \in Kinds |-> Missing], rules |-> [k \in Kinds |-> Missing],
               org |-> Missing, uci |-> <<>>]

\* The loop over the text file: a line that is a rule is appended to the rule
\* file, any other is skipped.
Translate(k, lines) ==
  LET written[n \in 0 .. Len(lines)] ==
        IF n = 0 THEN <<>>
        ELSE IF lines[n] \in Rules THEN Append(written[n - 1], [kind |-> k, of |-> lines[n]])
        ELSE written[n - 1]
  IN  written[Len(lines)]

Content(file) == IF file = Missing THEN <<>> ELSE file

\* Mutant: the firewall is put together without the rules for NAT.
ApplyFirewallRulesNoNat(fw) ==
  LET org == IF fw.org = Missing THEN fw.uci ELSE fw.org
  IN  [fw EXCEPT !.org = org,
                 !.rules = [k \in Kinds |-> Content(fw.rules[k])],
                 !.uci = org \o Content(fw.rules["filter"])]

\* Mutant: firewall.ORG is what was there before this apply.
ApplyFirewallRulesAgain(fw) ==
  [fw EXCEPT !.org = fw.uci,
             !.rules = [k \in Kinds |-> Content(fw.rules[k])],
             !.uci = Content(fw.rules["filter"]) \o Content(fw.rules["nat"])]

\* apply_firewall_rules: firewall.ORG is made once; missing rule files are
\* created empty; the firewall is put together anew.  The third rule file,
\* sfirewall_mac, is always empty: nothing writes to it.
ApplyFirewallRules(fw) ==
  LET org == IF fw.org = Missing THEN fw.uci ELSE fw.org
  IN  [fw EXCEPT !.org = org,
                 !.rules = [k \in Kinds |-> Content(fw.rules[k])],
                 !.uci = org \o Content(fw.rules["filter"]) \o Content(fw.rules["nat"])]

\* sfirewall_filter_rules_apply and sfirewall_nat_portmap_apply, once the rule
\* file is open and empty: readable says whether the text file can be opened.
Applied(fw, k, readable) ==
  IF readable
  THEN ApplyFirewallRules([fw EXCEPT !.rules[k] = Translate(k, fw.txt[k])])
  ELSE [fw EXCEPT !.rules[k] = <<>>]

\* wg_listenport: uci add firewall rule, and no rule is removed.
AllowPort(fw, p) == [fw EXCEPT !.uci = Append(@, [kind |-> "port", of |-> p])]

\* Somebody puts a text file there; vtysh never does.
PutText(fw, k, lines) == [fw EXCEPT !.txt[k] = lines]
=============================================================================
