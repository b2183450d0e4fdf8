SPECIFICATION MCSpec
CONSTANTS
    server = server
    command = command
    file = file
    agent = agent
    row = row
    d1 = d1
    d2 = d2
    Process = {server, command}
    Server = {server}
    SiteCount = 3
    Db = {3}
    Source = {file, agent, row}
    Dir = {d1, d2}
    Garbled = Garbled
    None = None
    MaxVersion = 2
    MaxChanges = 3
    SiteOf <- MCSiteOf
    Shadow <- MCShadow
    Cwd <- MCCwd
INVARIANTS
    FingerprintNeverHidesEdit
    DatabaseVouches
    DiffExact
PROPERTIES
    Settles
