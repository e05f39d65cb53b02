SPECIFICATION PipelineSpec
CONSTANTS
    host = host box = box sub = sub script = script
    ho = ho hi = hi si = si do = do dp = dp di = di x = x y = y z = z
    q1 = q1 q2 = q2
    Nodes = {host, box, sub, script}
    HostNodes = {host, box, sub}
    Outs = {ho, do, dp}
    Ins = {hi, si, di}
    Queues = {q1, q2}
    Owner <- MCOwner
    PortName <- MCPortName
    QueueName <- MCQueueName
    Subnodes <- MCSubnodes
    CanConnect <- MCCanConnect
    MaxBridges = 5
    MaxTwin = 2
    MaxOps = 7
    Threads = {t1, t2}
    Emitters = {s1}
    AggSize = 3
    eventWaitWindow = 2
    MaxEvents = 3
    u1 = u1
    u2 = u2
    Users = {u1, u2}
    Programs <- MCPrograms
    InputSize = 2
CHECK_DEADLOCK FALSE
INVARIANTS StreamsDifferUnlessRetried EventsAreMeasured AnswersAgree
PROPERTIES BuildKeepsDelivery BuildBridgesAll StatesArrive
