-------------------------------- MODULE Dns ---------------------------------
(***************************************************************************)
(* The DNS client, lib/libnet/dns.c.  All queries carry the same number    *)
(* and answers are not compared with the question, so an answer to an      *)
(* earlier lookup is read during a later one; what keeps them apart is the *)
(* comparison of names, record by record.                                  *)
(*                                                                         *)
(* A text is a sequence of tokens.  A message is a sequence of cells: a    *)
(* label, the end of a name, a pointer to an earlier cell (compression),   *)
(* the fixed part of a record ("A", "AAAA", "CNAME", ...), an address.     *)
(* Records are of class Internet.  The network loses, delays, repeats and  *)
(* reorders: any answer to anything asked so far can arrive at any time.   *)
(***************************************************************************)
EXTENDS Naturals, Sequences, SequencesExt

CONSTANTS
    Urls,         \* what callers ask for
    Zone,         \* the data of the servers: name -> [type, to]
    MaxName,      \* labels in a name that fit 255 octets
    LongLabel,    \* a label of more than 63 octets
    MaxLookups, MaxQueries,   \* bounds: calls, and queries of each (30)
    HaveServer    \* whether a DNS server is configured

VARIABLES qpc,      \* "idle" or "wait"
          qurl,     \* the argument of the call
          qname,    \* dns_domain_name
          qcname,   \* dns_domain_cname
          qres,     \* dns_result_ip, <<>> for 0
          qerr,     \* dns_error
          qn,       \* queries sent
          qcalls,
          qasked,   \* the names asked for so far
          qret      \* [ok, ip] of the last call

qvars == <<qpc, qurl, qname, qcname, qres, qerr, qn, qcalls, qasked, qret>>

dns_init ==
    /\ qpc = "idle" /\ qurl = <<>> /\ qname = <<>> /\ qcname = <<>> /\ qres = <<>> /\ qerr = FALSE
    /\ qn = 0 /\ qcalls = 0 /\ qasked = {} /\ qret = [ok |-> FALSE, ip |-> <<>>]

-----------------------------------------------------------------------------
(* Names.                                                                  *)

After(s, t) == IF Contains(s, t) THEN SubSeq(s, 1 + SelectInSeq(s, LAMBDA x : x = t), Len(s)) ELSE s
Before(s, t) == IF Contains(s, t) THEN SubSeq(s, 1, SelectInSeq(s, LAMBDA x : x = t) - 1) ELSE s

\* The host of a URL; <<>> if there is none.
urltohost(url) == Before(Before(After(After(url, "://"), "@"), "/"), ":")

\* Host names as sequences of labels; an empty label ends the name.  <<>> for a
\* label that is too long.
hosttodomain(host) ==
    LET empty == {i \in DOMAIN host : host[i] = "." /\ (i = 1 \/ host[i - 1] = ".")}
        whole == IF empty = {} THEN host ELSE SubSeq(host, 1, Min(empty) - 1)
    IN IF Contains(host, LongLabel) THEN <<>> ELSE SelectSeq(whole, LAMBDA x : x # ".")

\* Where the data after a name starts: after the last pointer followed, if any.
NextSection(after, ptr) == IF after # 0 THEN after ELSE ptr

\* The name at a place of a message, and the place after it (0: too long).
RECURSIVE Extract(_, _, _, _)
Extract(msg, ptr, after, tail) ==
    CASE msg[ptr].k = "ptr"   -> Extract(msg, msg[ptr].n, ptr + 1, tail)
      [] msg[ptr].k = "label" -> IF Len(tail) = MaxName THEN [name |-> <<>>, next |-> 0]
                                 ELSE Extract(msg, ptr + 1, after, Append(tail, msg[ptr].s))
      [] OTHER                -> [name |-> tail, next |-> NextSection(after, ptr + 1)]

dns_extract_name(msg, head) == Extract(msg, head, 0, <<>>)

-----------------------------------------------------------------------------
(* handle_dns.                                                             *)

\* A variant that takes any record of the answer.
AnyName(name, cname) == TRUE
\* A record counts if it is about the name asked for or its canonical name.
Asked(name, cname) == name \in {qname, cname}

\* The records of the answer section from ptr on: the first address, and the
\* canonical name seen last.  After a name whose pointer leads to another
\* pointer, ptr is not at a record, and what is read there counts for nothing.
RECURSIVE AnswerRecords(_, _, _, _)
AnswerRecords(msg, n, ptr, cname) ==
    LET nothing == [ip |-> <<>>, cname |-> cname]
        x == dns_extract_name(msg, ptr)
        c == msg[x.next]
        to == dns_extract_name(msg, x.next + 1)
    IN IF n = 0 \/ ptr > Len(msg) THEN nothing
       ELSE IF x.next \notin DOMAIN msg THEN nothing
       ELSE IF c.k # "rr" THEN nothing
       ELSE IF ~Asked(x.name, cname) THEN AnswerRecords(msg, n - 1, x.next + 1 + c.n, cname)
       ELSE CASE c.s = "A"     -> [ip |-> <<msg[x.next + 1].s>>, cname |-> cname]
              [] c.s = "CNAME" -> IF to.next = 0 THEN [ip |-> <<>>, cname |-> <<>>]
                                  ELSE AnswerRecords(msg, n - 1, x.next + 1 + c.n, to.name)
              [] OTHER         -> AnswerRecords(msg, n - 1, x.next + 1 + c.n, cname)

\* The questions are skipped: one name each, its type and class.
handle_dns(p) ==
    LET q == dns_extract_name(p.msg, 1)
        r == AnswerRecords(p.msg, p.ancount, q.next + 1, qcname)
    IN IF p.rcode # 0 THEN qerr' = TRUE /\ UNCHANGED <<qres, qcname>>
       ELSE /\ UNCHANGED qerr
            /\ IF q.next = 0 THEN UNCHANGED <<qres, qcname>>
               ELSE qcname' = r.cname /\ qres' = IF r.ip # <<>> THEN r.ip ELSE qres

-----------------------------------------------------------------------------
(* The client.                                                             *)

fill_dnshdr(name) == name
\* A query asks for the canonical name in case we obtained it.
dns_send_query(name, cname) == fill_dnshdr(IF cname # <<>> THEN cname ELSE name)

\* A call that fails before it asks, or starts to ask.
dns_get_ip(url) ==
    /\ qpc = "idle" /\ qcalls < MaxLookups
    /\ qcalls' = qcalls + 1 /\ qurl' = url
    /\ qname' = IF urltohost(url) = <<>> THEN qname ELSE hosttodomain(urltohost(url))
    /\ IF urltohost(url) = <<>> \/ qname' = <<>> \/ ~HaveServer
       THEN /\ qret' = [ok |-> FALSE, ip |-> <<>>]
            /\ UNCHANGED <<qpc, qres, qerr, qcname, qn, qasked>>
       ELSE /\ qres' = <<>> /\ qerr' = FALSE /\ qcname' = <<>>
            /\ qpc' = "wait" /\ qn' = 1
            /\ qasked' = qasked \cup {dns_send_query(qname', <<>>)}
            /\ UNCHANGED qret

\* receive_ether, and what the loop makes of it.
Receive(p) ==
    /\ qpc = "wait"
    /\ handle_dns(p)
    /\ qpc' = IF qerr' \/ qres' # <<>> THEN "idle" ELSE "wait"
    /\ qret' = IF qpc' = "wait" THEN qret ELSE [ok |-> ~qerr', ip |-> IF qerr' THEN <<>> ELSE qres']
    /\ UNCHANGED <<qurl, qname, qn, qcalls, qasked>>

\* A second has passed: the next query, or the end.
QueryTimeout ==
    /\ qpc = "wait"
    /\ IF qn < MaxQueries
       THEN qn' = qn + 1 /\ qasked' = qasked \cup {dns_send_query(qname, qcname)} /\ UNCHANGED <<qpc, qret>>
       ELSE qpc' = "idle" /\ qret' = [ok |-> FALSE, ip |-> <<>>] /\ UNCHANGED <<qn, qasked>>
    /\ UNCHANGED <<qurl, qname, qcname, qres, qerr, qcalls>>

-----------------------------------------------------------------------------
(* The server (external) answers the query with an error or with records,  *)
(* compressed as RFC 1035 allows: the owner of the first record is a       *)
(* pointer to the question, that of a second one to the first one's data.  *)

Label(s) == [k |-> "label", s |-> s, n |-> 0]
Ptr(n) == [k |-> "ptr", s |-> "", n |-> n]
End == [k |-> "end", s |-> "", n |-> 0]
Rr(t, len) == [k |-> "rr", s |-> t, n |-> len]
Data(s) == [k |-> "data", s |-> s, n |-> 0]
Labels(name) == [i \in DOMAIN name |-> Label(name[i])]

Question(name) == Labels(name) \o <<End, Data("question")>>
Host(a) == <<Rr("A", 1), Data(a)>>
\* A record about another name, to start the answer with.
Other == Labels(<<"other">>) \o <<End>> \o Host("elsewhere")

Reply(name, msg, n) == [rcode |-> 0, ancount |-> n, msg |-> Question(name) \o msg]
Refusal(name) == [rcode |-> 3, ancount |-> 0, msg |-> Question(name)]

RepliesTo(name) ==
    LET z == Zone[name]
        at == Len(Question(name)) + 1
        alias == <<Ptr(1), Rr("CNAME", Len(z.to) + 1)>> \o Labels(z.to) \o <<End>>
        \* the last label of the canonical name is that of the question
        shared == <<Ptr(1), Rr("CNAME", Len(z.to))>> \o Labels(Front(z.to)) \o <<Ptr(Len(name))>>
    IN IF name \notin DOMAIN Zone THEN {Refusal(name)}
       ELSE IF z.type = "A"
       THEN {Reply(name, <<Ptr(1)>> \o Host(z.to[1]), 1),
             Reply(name, Other \o <<Ptr(1)>> \o Host(z.to[1]), 2),
             Reply(name, <<Ptr(1), Rr("TXT", 1), Data("text")>>, 1)}
       ELSE {Reply(name, alias, 1),
             Reply(name, alias \o Labels(z.to) \o <<End>> \o Host(Zone[z.to].to[1]), 2),
             Reply(name, alias \o <<Ptr(at + 2)>> \o Host(Zone[z.to].to[1]), 2),
             Reply(name, shared \o <<Ptr(at + 2)>> \o Host(Zone[z.to].to[1]), 2)}

Next == \/ (\E u \in Urls : dns_get_ip(u)) \/ (\E n \in qasked : \E p \in RepliesTo(n) : Receive(p))
        \/ QueryTimeout

-----------------------------------------------------------------------------

\* The address of a name, following its alias.
AddressOf(name) == IF Zone[name].type = "A" THEN Zone[name].to ELSE Zone[Zone[name].to].to

\* The address a lookup returns is that of the host in the URL of this call,
\* whatever answers to earlier calls arrive and however names are compressed
\* (dns_get_ip, handle_dns, dns_extract_name).
LookupRight ==
    (qpc = "idle" /\ qret.ok) =>
        /\ qname \in DOMAIN Zone
        /\ qret.ip = AddressOf(qname)
=============================================================================
