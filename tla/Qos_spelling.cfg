SPECIFICATION QosSpec
CONSTANTS
    QosSessions = {q1}
    Spellings = {Normal, asUploaded}
    Normal = Normal
    Purgers = {pu1}
INVARIANT QosOfSessionDeleted
