SPECIFICATION Spec
CONSTANTS
    ns_a = ns_a
    ns_b = ns_b
    ns_c = ns_c
    test_metric1 = test_metric1
    test_metric2 = test_metric2
    test_metric_without_labels = test_metric_without_labels
    test_metric_stale = test_metric_stale
    test_metric_old = test_metric_old
    does_not_match_anything = does_not_match_anything
    foo = foo
    bar = bar
    prometheus = prometheus
    absent = absent
    bar_value = bar_value
    boo = boo
    project_level = project_level
    noneNamespacesUserName = noneNamespacesUserName
    someNamespacesUserName = someNamespacesUserName
    Label = {namespace, name, foo, bar, prometheus, absent}
    Value = {ns_a, ns_b, ns_c, test_metric1, test_metric2, test_metric_without_labels,
             test_metric_stale, test_metric_old, does_not_match_anything,
             bar_value, boo, project_level, none, blank}
    namespaceMatchName = namespace
    nameLabel = name
    noneNamespace = none
    Blank = blank
    BadPattern = bad
    Request = {r1}
    Principal = {noneNamespacesUserName, someNamespacesUserName}
    NoPrincipal = nobody
    Token = {mine}
    myToken = mine
    NoToken = notoken
    NamespaceName = {ns_a, ns_b, ns_c}
    monitoringNamespace = monitoring
    SecretName = {}
    filterReaderLabelSet = {prometheus}
    TSDB <- suite
    Inputs <- Scenario
    Grants <- mockGrants
    SecretStates = {}
    Clusters <- mockAgent
    MaxChanges = 0
INVARIANT ScenariosPass
