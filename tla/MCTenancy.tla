------------------------------ MODULE MCTenancy ------------------------------
(* Small instances of Tenancy.                                              *)
EXTENDS Tenancy

CONSTANTS ann, bob, classifier, quote, custom

MCBuiltIns == <<"email_reply", "triage">>
MCStarters == <<classifier, quote>>
MCTypes == <<"Product", "Customer">>

\* The classifier has no tools, the quote agent two.
MCTemplateTools ==
    [a \in {classifier, quote} |-> IF a = quote THEN {"find", "send"} ELSE {}]
MCEditorTools ==
    [e \in Editors |-> IF e = "edit1" THEN {"find"} ELSE {"search", "send"}]

MCPersonOf == [r \in Requests |-> IF r = "bob1" THEN bob ELSE ann]
MCFirstEmail == [p \in {ann, bob} |-> IF p = ann THEN "a@x" ELSE "b@x"]

\* What is looked at together: each cast is a behaviour of its own.
MCCasts ==
    {{"ann1", "bob1", "edits"},
     {"ann1", "edit1", "edit2"},
     {"ann1", "ann2", "bob1"},
     {"ann1", "ann2", "dissolve", "documents"},
     {"ann1", "ann2", "roles", "founded"},
     {"ann1", "bob1", "addresses", "founded"},
     {"ann1", "ann2", "leave", "decide"},
     {"list1", "list2", "templates"},
     {"ann1", "templates", "dissolve"}}
=============================================================================
