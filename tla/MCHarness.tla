----------------------------- MODULE MCHarness -----------------------------
(* Small instances of Harness: one run of each kind of agent, two           *)
(* organisations' documents, and three submissions of the settings form.    *)
EXTENDS Harness

CONSTANTS template, totals, triage, answer, bare, quote, reply, odd,
          u1, u2, s1, s2, s3, ours, theirs

MCUploadOrg == [u \in {u1, u2} |-> IF u = u1 THEN ours ELSE theirs]
MCOrgOf == [j \in Jobs |-> ours]

Submission(url, secret) == [org |-> ours, url |-> url, secret |-> secret]
MCForm ==
    [s \in {s1, s2, s3} |->
        CASE s = s1 -> Submission("new", "")
          [] s = s2 -> Submission("new", "fresh")
          [] OTHER -> Submission("old", "")]
MCConnected == [o \in {ours, theirs} |-> [url |-> "old", secret |-> "first"]]

MCPipeline ==
    [j \in Jobs |-> CASE j = quote -> "quote"
                      [] j = reply -> "acknowledge_reply"
                      [] j = odd -> "none"
                      [] OTHER -> "steps"]

Path(names) == [path |-> names]
Literal(word) == [template |-> <<[word |-> word]>>]
Number(n) == [template |-> <<[figure |-> n]>>]
Day(n) == [template |-> <<[date |-> n]>>]

Extract(fields) == [kind |-> "extract", fields |-> fields]
FindBy(as, type, key, required) ==
    [kind |-> "lookup", as |-> as, search |-> FALSE, type |-> type, key |-> key,
     required |-> required]
Search(as, type, key, required) == [FindBy(as, type, key, required) EXCEPT !.search = TRUE]
Computed(as, operation, operands) ==
    [kind |-> "compute", as |-> as, operation |-> operation, operands |-> operands]
Retrieve(as, query) == [kind |-> "retrieve", as |-> as, query |-> query, limit |-> 1]
Compose(as) == [kind |-> "compose", as |-> as]
Act(tool, to, body) ==
    [kind |-> "act", tool |-> tool,
     args |-> [a \in {"to", "body"} |-> IF a = "to" THEN to ELSE body]]
Branch(left, operator, right, then, otherwise) ==
    [kind |-> "branch", when |-> [left |-> left, operator |-> operator, right |-> right],
     then |-> then, otherwise |-> otherwise]
SendTo(to) == Act("send_email", to, Path(<<"body">>))

\* The built-in template "Look up and quote".
QuoteTemplate ==
    <<Extract({"product", "quantity"}),
      FindBy("customer", "Customer", Path(<<"senderEmail">>), FALSE),
      Search("item", "Product", Path(<<"product">>), TRUE),
      Computed("total", "multiply", <<Path(<<"item", "data", "unitPrice">>),
                                      Path(<<"quantity">>)>>),
      Compose("body"), SendTo(Path(<<"senderEmail">>))>>

\* What is owed on the open invoices, what that is for each of them, and what
\* to do about it.
UnitPrices == [template |-> <<[word |-> "data"], [word |-> "unitPrice"]>>]
Rest == [template |-> <<[word |-> "rest"], Path(<<"rest">>)>>]
Totals ==
    <<Search("invoices", "Product", Literal("open"), FALSE),
      Computed("number", "count", <<Path(<<"invoices">>)>>),
      Computed("owed", "sum", <<Path(<<"invoices">>), UnitPrices>>),
      Branch(Path(<<"owed">>), "gt", Number(150),
             <<Computed("mean", "avg", <<Path(<<"invoices">>), UnitPrices>>)>>,
             <<Computed("none", "avg", <<Path(<<"nowhere">>)>>)>>),
      Computed("share", "divide", <<Path(<<"owed">>), Path(<<"number">>)>>),
      Computed("rounded", "round", <<Path(<<"mean">>)>>),
      Computed("rest", "subtract", <<Path(<<"owed">>), Path(<<"rounded">>)>>),
      Computed("late", "date_diff_days", <<Day(1030), Day(940)>>),
      Computed("due", "date_add_days", <<Day(1000), Path(<<"late">>)>>),
      Computed("shown", "date_format", <<Path(<<"due">>)>>),
      Computed("note", "template", <<Rest>>),
      Branch(Path(<<"note">>), "contains", Number(98), <<>>,
             <<Act("create_record", Path(<<"shown">>), Path(<<"mean">>))>>)>>

\* Reply to a customer that is known, file the others.
Triage ==
    <<FindBy("customer", "Customer", Path(<<"senderEmail">>), FALSE),
      Search("items", "Product", Path(<<"input">>), TRUE),
      Compose("body"),
      Branch(Path(<<"customer", "data", "email">>), "exists", Literal("x"),
             <<SendTo(Path(<<"customer", "data", "email">>))>>,
             <<Act("create_record", Path(<<"senderEmail">>), Path(<<"body">>))>>),
      Act("create_record", Path(<<"senderEmail">>), Path(<<"input">>))>>

\* The same with a search that may find nothing.
Answer == <<Retrieve("policy", Path(<<"input">>)),
            Branch(Path(<<"policy">>), "exists", Literal("x"),
                   <<SendTo(Path(<<"senderEmail">>))>>, <<>>)>>

MCProgramme ==
    [j \in Jobs |-> CASE j = template -> QuoteTemplate [] j = totals -> Totals
                      [] j = triage -> Triage [] j = answer -> Answer [] OTHER -> <<>>]

MCFields ==
    [j \in Jobs |->
        IF j # reply THEN <<>>
        ELSE <<[name |-> "product", type |-> "Product", fact |-> "item"],
               [name |-> "case", type |-> "", fact |-> "none"]>>]

MCGranted ==
    [j \in Jobs |-> CASE j = totals -> {"search_records", "create_record"}
                      [] j = reply -> {"find_record", "search_records", "notify_channel"}
                      [] j = triage -> {"find_record", "search_records", "send_email"}
                      [] j = answer -> {"send_email"}
                      [] OTHER -> {"find_record", "search_records", "send_email",
                                   "create_record"}]
MCActionTool == [j \in Jobs |-> IF j = reply THEN "notify_channel" ELSE "send_email"]
MCNeverSay == [j \in Jobs |-> {"refund"}]

Customer == Word("sender")
MCSender == [j \in Jobs |-> IF j = odd THEN Nothing ELSE Customer]
Unknown == [j \in Jobs |-> IF j = quote THEN Nothing ELSE MCSender[j]]
MCMentioned == [j \in Jobs |-> IF j = quote THEN Word("mentioned") ELSE Nothing]

MCAnswered ==
    [f \in {"product", "quantity", "customerEmail", "case"} |->
        CASE f = "quantity" -> {Nothing, Figure(0), Figure(-50), Figure(250), Word("two")}
          [] f = "customerEmail" -> {Nothing, Word("other")}
          [] OTHER -> {Nothing, Empty, Word("thing")}]

MCDrafts == {Word("fine"), Word("Refund")}
MCLower ==
    [w \in {"fine", "Refund", "refund", "input", "sender", "open", "rest", "x"} |->
        IF w = "Refund" THEN "refund" ELSE w]

Record(fields) == [record |-> [data |-> [record |-> fields]]]
Priced(v) == Record([f \in {"unitPrice"} |-> v])
MCStored ==
    [type \in {"Customer", "Product"} |->
        IF type = "Customer" THEN {Record([f \in {"email"} |-> Customer]),
                                   Record([f \in {"email"} |-> Empty])}
        ELSE {Priced(Figure(99)), Priced([text |-> <<[figure |-> 101]>>]), Priced(Empty),
              Record([f \in {"name"} |-> Word("thing")])}]
Prices == [type \in {"Customer", "Product"} |->
    IF type = "Customer" THEN MCStored[type] ELSE {Priced(Figure(99))}]

\* Paragraphs around every limit of the chunking, up to three of them.
Lengths == {0, 1, 2, 5, 6, 7, 8, 9, 13}
AllDocuments == UNION {[1 .. n -> Lengths] : n \in 1 .. 3}
Short == {<<2>>, <<7, 8>>}

Cast(jobs, submitted, pages, deletes, submissions, disconnects) ==
    [jobs |-> jobs, uploads |-> submitted, pages |-> pages, deletes |-> deletes,
     saves |-> submissions, disconnects |-> disconnects]

MCCasts ==
    {Cast({j}, {}, {}, {}, {}, {}) : j \in Jobs \ {answer}} \cup
    {Cast({}, {u1}, AllDocuments, {u1}, {}, {}),
     Cast({answer}, {u1, u2}, Short, {u1}, {}, {}),
     Cast({answer}, {u1}, Short, {u1}, {s1}, {ours}),
     Cast({answer}, {}, {}, {}, {s1, s2, s3}, {ours}),
     Cast({bare}, {u1}, {<<2>>}, {}, {s1, s2}, {ours})}
\* What the theorems about programmes ask of them, these have.
ASSUME PlainProgrammes ==
    \A j \in Jobs : Plain(Programme[j]) /\ Lasting(Programme[j]) /\ Guarded(Programme[j])

\* What the runs of these instances are given: nothing with more than two levels.
PartsOf(values) ==
    UNION {{v.record[n] : n \in DOMAIN v.record} : v \in {v \in values : Is("record", v)}}
Given == UNION {MCAnswered[f] : f \in DOMAIN MCAnswered}
         \cup UNION {MCStored[type] : type \in DOMAIN MCStored}
         \cup MCDrafts \cup {Nothing, Customer, Word("mentioned")}
ASSUME GivenNoPassages ==
    GivenFrom(Given \cup PartsOf(Given) \cup PartsOf(PartsOf(Given)))

OnlyTemplate == {Cast({template}, {}, {}, {}, {}, {})}
=============================================================================
