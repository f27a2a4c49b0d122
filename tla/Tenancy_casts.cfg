SPECIFICATION Spec
CONSTANTS
 ann = ann bob = bob classifier = classifier quote = quote custom = custom
 None = None
 BuiltIns <- MCBuiltIns
 Readers = {"list1", "list2"}
 Businesses = {"ours", "theirs"}
 MaxTemplates = 4
 Casts <- MCCasts
 Faults = TRUE
 Starters <- MCStarters
 Custom = {custom}
 StarterTypes <- MCTypes
 TemplateTools <- MCTemplateTools
 Editors = {"edit1", "edit2"}
 EditorTools <- MCEditorTools
 Requests = {"ann1", "ann2", "bob1"}
 MaxOrganisations = 2
 Persons = {ann, bob}
 PersonOf <- MCPersonOf
 Emails = {"a@x", "b@x", "c@x"}
 FirstEmail <- MCFirstEmail
 Approvals = {"k1"}
 MaxUsers = 3
INVARIANT PeopleSynced
INVARIANT RowsWhole
INVARIANT NothingLeft
INVARIANT BuiltInsSeeded
CHECK_DEADLOCK FALSE
