CONSTANTS
    app = app
    mon = mon
    up = up
    kube = kube
    pod = pod
    user = user
    sa = sa
    saToken = saToken
    stray = stray
    sec1 = sec1
    sec2 = sec2
    Label = {lnamespace, lname, pod}
    Value = {app, mon, up, kube, none, blank}
    namespaceMatchName = lnamespace
    nameLabel = lname
    noneNamespace = none
    Blank = blank
    BadPattern = bad
    Request = {r1}
    Principal = {user, sa}
    NoPrincipal = nobody
    Token = {saToken, stray, mine}
    myToken = mine
    NoToken = notoken
    NamespaceName = {app, mon}
    monitoringNamespace = mon
    SecretName = {sec1, sec2}
    filterReaderLabelSet = {pod}
    TSDB <- MCTSDB
    Inputs <- MCInputs
    Grants <- MCGrants
    SecretStates <- MCSecretStates
    Clusters <- MCClusters
    MaxChanges = 0
SPECIFICATION Spec
INVARIANTS UnknownTokenRefused
